---- MODULE Spec2Model ----
(***************************************************************************)
(* Verification model of mikrotik-kube: the IPAM allocator                 *)
(* (pkg/ipam), the network manager (pkg/network) and the pod provider      *)
(* (pkg/provider).                                                         *)
(*                                                                         *)
(* IPv4 addresses are unsigned integers of Bits bits (32 in the program);  *)
(* all address arithmetic is done modulo 2^Bits as the uint32 arithmetic   *)
(* of the program does.                                                    *)
(***************************************************************************)
EXTENDS Integers, Sequences, FiniteSets, TLC

\* ------------------------------------------------------------------------
\* Bounds
\* ------------------------------------------------------------------------
Bits == 4
MaxHostBits == 3

RECURSIVE Pow2(_)
Pow2(n) == IF n <= 0 THEN 1 ELSE 2 * Pow2(n - 1)

Mod == Pow2(Bits)
IPs == 0 .. (Mod - 1)
NoIP == -1
\* Allocation keys (veth names)
Keys == {"veth-a", "veth-b"}
NoKey == ""

\* Pool names used by callers; only "test" is ever registered.
PoolNames == {"test"}
CallNames == {"test", "nonexistent"}

\* ------------------------------------------------------------------------
\* net.IPNet as produced by net.ParseCIDR: prefix length and masked base
\* ------------------------------------------------------------------------
HostBitsOf(subnet) == Bits - subnet.ones
SizeOf(subnet) == Pow2(HostBitsOf(subnet))

Subnets ==
  { s \in [ones : 0 .. Bits, base : IPs] :
      /\ HostBitsOf(s) <= MaxHostBits
      /\ s.base = (IF HostBitsOf(s) = Bits THEN 0 ELSE SizeOf(s)) }

\* net.IPNet.Contains: the masked address equals the masked network number.
Contains(subnet, ip) ==
  /\ ip \in IPs
  /\ ip \div SizeOf(subnet) = subnet.base \div SizeOf(subnet)

\* Gateways callers configure: base+1 (the default) or base+2.
GatewaysOf(subnet) == { (subnet.base + 1) % Mod, (subnet.base + 2) % Mod }

VARIABLES
  pools,         \* ipam.Allocator.pools
  ret,           \* outcome of the last Allocator call
  allocOnly,     \* pools that only saw Allocate calls with distinct keys
  mgr,           \* network.Manager: subnet, gateway, allocated, nextIP
  images,        \* storage.Manager.images: image ref -> InUse
  pods,          \* MikroTikProvider.pods: namespace/name -> pod
  units,         \* systemd.Manager.units: container name -> unit
  rosVeths,      \* runtime: veth name -> address
  rosContainers, \* runtime: container name -> status
  seeded,        \* veths seeded by the last restart and still allocated
  pret,          \* outcome of the last network / provider call
  supCfg,        \* systemd.Manager.cfg: MaxRestarts, RestartCooldown
  now,           \* the clock read by time.Now()
  sret,          \* outcome of the last supervisor call
  inProgress,    \* the CreatePod / UpdatePod call that has not returned yet
  podStatus,     \* the last answer of GetPodStatus
  tasks,         \* the provider call each task is in, and where it stands
  files,         \* registry.BlobStore: the files under its root
  rret,          \* outcome of the last registry call
  hist,          \* what was written to the registry store so far
  gc,            \* storage.Manager: image cache, volumes, GC configuration
  infra          \* infrastructure watchdog: failure counts, last restarts

ipamVars == <<pools, ret, allocOnly>>
netVars == <<mgr, rosVeths, seeded>>
provVars == <<mgr, images, pods, units, rosVeths, rosContainers, seeded, pret>>
supVars == <<supCfg, now, sret>>
auxVars == <<inProgress, podStatus, tasks>>
regVars == <<files, rret, hist>>
opsVars == <<gc, infra>>
vars == <<pools, ret, allocOnly, mgr, images, pods, units, rosVeths,
          rosContainers, seeded, pret, supCfg, now, sret, inProgress, podStatus,
          tasks, files, rret, hist, gc, infra>>

\* ------------------------------------------------------------------------
\* pkg/ipam: Allocator
\* ------------------------------------------------------------------------
NewPool(subnet, gateway) ==
  [Subnet |-> subnet, Gateway |-> gateway, Allocated |-> <<>>, NextIP |-> 2]

\* maxHosts := uint32(1<<(bits-ones)) - 2
maxHosts(pool) == ((SizeOf(pool.Subnet) % Mod) + Mod - 2) % Mod

\* Variant: the candidate is compared with the gateway instead of the
\* addresses in the allocation map.
IsTaken_GatewayOnly(pool, ip) == ip = pool.Gateway

IsTaken(pool, ip) == \E k \in DOMAIN pool.Allocated : pool.Allocated[k] = ip

\* The scan loop of allocateFromPool.  ovf reports that the uint cursor
\* itself wrapped past 2^Bits - 1.
RECURSIVE allocScan(_, _, _, _)
allocScan(pool, next, attempts, ovf) ==
  IF attempts >= maxHosts(pool)
  THEN [ok |-> FALSE, ip |-> NoIP, NextIP |-> next, ovf |-> ovf]
  ELSE LET candidate == (pool.Subnet.base + next) % Mod
           taken == IsTaken(pool, candidate)
           n1 == (next + 1) % Mod
           n2 == IF n1 > maxHosts(pool) THEN 2 ELSE n1
           o2 == ovf \/ (next + 1 >= Mod)
       IN IF ~taken /\ candidate # pool.Gateway
          THEN [ok |-> TRUE, ip |-> candidate, NextIP |-> n2, ovf |-> o2]
          ELSE allocScan(pool, n2, attempts + 1, o2)

\* The cursor of a pool with usable hosts stays within 2 .. maxHosts; in a
\* /32 pool it only grows, and is followed up to CursorCap.
CursorCap == Pow2(MaxHostBits)

\* Function update that also adds a key (Go map assignment).
MapPut(m, k, v) == (k :> v) @@ m
\* Go delete(m, k)
MapDel(m, k) == [x \in (DOMAIN m) \ {k} |-> m[x]]

\* Variant: every call scans from offset 2 instead of from the cursor.
allocateFromPool_FromStart(pool, key) ==
  LET r == allocScan(pool, 2, 0, FALSE)
  IN [ok |-> r.ok, ip |-> r.ip, ovf |-> r.ovf,
      pool |-> [pool EXCEPT !.NextIP = r.NextIP,
                            !.Allocated = IF r.ok THEN MapPut(@, key, r.ip) ELSE @]]

allocateFromPool(pool, key) ==
  LET r == allocScan(pool, pool.NextIP, 0, FALSE)
  IN [ok |-> r.ok, ip |-> r.ip, ovf |-> r.ovf,
      pool |-> [pool EXCEPT !.NextIP = r.NextIP,
                            !.Allocated = IF r.ok THEN MapPut(@, key, r.ip) ELSE @]]

\* ret is the outcome of the last call: its operation and arguments, the
\* address and error it returned, (for Allocate and AllocateStatic on a
\* known pool) the pool as it was when the call was entered, and (for
\* Allocate) the address and key of a Release that came right before it.
NoPre == [known |-> FALSE]
PreOf(pool) == [known |-> TRUE, pool |-> pool]

Result(op, pool, key, ip, err) ==
  [op |-> op, pool |-> pool, key |-> key, ip |-> ip, err |-> err,
   freed |-> NoIP, freedKey |-> NoKey, pre |-> NoPre]

AddPool(name, subnet, gateway) ==
  /\ pools' = MapPut(pools, name, NewPool(subnet, gateway))
  /\ ret' = Result("AddPool", name, NoKey, NoIP, "")
  /\ allocOnly' = allocOnly \cup {name}
  /\ UNCHANGED <<provVars, supVars, auxVars, regVars, opsVars>>

Allocate(poolName, key) ==
  IF poolName \notin DOMAIN pools
  THEN /\ ret' = Result("Allocate", poolName, key, NoIP, "UnknownPool")
       /\ UNCHANGED <<pools, allocOnly>>
       /\ UNCHANGED <<provVars, supVars, auxVars, regVars, opsVars>>
  ELSE LET r == allocateFromPool(pools[poolName], key)
       IN /\ ~r.ovf
          /\ r.pool.NextIP <= CursorCap
          /\ pools' = [pools EXCEPT ![poolName] = r.pool]
          /\ ret' = [Result("Allocate", poolName, key, r.ip,
                            IF r.ok THEN "" ELSE "Exhausted")
                       EXCEPT !.pre = PreOf(pools[poolName]),
                              \* what the immediately preceding Release
                              \* on this pool freed
                              !.freed = IF ret.op = "Release" /\ ret.pool = poolName
                                        THEN ret.ip ELSE NoIP,
                              !.freedKey = IF ret.op = "Release" /\ ret.pool = poolName
                                           THEN ret.key ELSE NoKey]
          /\ allocOnly' = IF key \in DOMAIN pools[poolName].Allocated
                          THEN allocOnly \ {poolName} ELSE allocOnly
          /\ UNCHANGED <<provVars, supVars, auxVars, regVars, opsVars>>

\* Variant: the gateway test is missing.
AllocateStatic_NoGatewayCheck(poolName, key, ip) ==
  LET err == IF poolName \notin DOMAIN pools THEN "UnknownPool"
             ELSE IF ~Contains(pools[poolName].Subnet, ip) THEN "OutOfSubnet"
             ELSE IF IsTaken(pools[poolName], ip) THEN "AlreadyTaken"
             ELSE ""
  IN /\ ret' = [Result("AllocateStatic", poolName, key, ip, err)
                  EXCEPT !.pre = IF poolName \in DOMAIN pools
                                 THEN PreOf(pools[poolName]) ELSE NoPre]
     /\ IF err = ""
        THEN /\ pools' = [pools EXCEPT ![poolName].Allocated = MapPut(@, key, ip)]
             /\ allocOnly' = allocOnly \ {poolName}
        ELSE UNCHANGED <<pools, allocOnly>>
     /\ UNCHANGED <<provVars, supVars, auxVars, regVars, opsVars>>

AllocateStatic(poolName, key, ip) ==
  LET err == IF poolName \notin DOMAIN pools THEN "UnknownPool"
             ELSE IF ~Contains(pools[poolName].Subnet, ip) THEN "OutOfSubnet"
             ELSE IF ip = pools[poolName].Gateway THEN "IsGateway"
             ELSE IF IsTaken(pools[poolName], ip) THEN "AlreadyTaken"
             ELSE ""
  IN /\ ret' = [Result("AllocateStatic", poolName, key, ip, err)
                  EXCEPT !.pre = IF poolName \in DOMAIN pools
                                 THEN PreOf(pools[poolName]) ELSE NoPre]
     /\ IF err = ""
        THEN /\ pools' = [pools EXCEPT ![poolName].Allocated = MapPut(@, key, ip)]
             /\ allocOnly' = allocOnly \ {poolName}
        ELSE UNCHANGED <<pools, allocOnly>>
     /\ UNCHANGED <<provVars, supVars, auxVars, regVars, opsVars>>

Release(poolName, key) ==
  /\ UNCHANGED <<provVars, supVars, auxVars, regVars, opsVars>>
  /\ IF poolName \notin DOMAIN pools
     THEN /\ ret' = Result("Release", poolName, key, NoIP, "")
          /\ UNCHANGED <<pools, allocOnly>>
     ELSE /\ pools' = [pools EXCEPT ![poolName].Allocated = MapDel(@, key)]
          \* ret.ip remembers the address the key held (NoIP if none)
          /\ ret' = Result("Release", poolName, key,
                           IF key \in DOMAIN pools[poolName].Allocated
                           THEN pools[poolName].Allocated[key] ELSE NoIP, "")
          /\ allocOnly' = allocOnly \ {poolName}

Record(poolName, key, ip) ==
  /\ UNCHANGED <<provVars, supVars, auxVars, regVars, opsVars>>
  /\ IF poolName \notin DOMAIN pools
     THEN /\ ret' = Result("Record", poolName, key, ip, "")
          /\ UNCHANGED <<pools, allocOnly>>
     ELSE /\ pools' = [pools EXCEPT ![poolName].Allocated = MapPut(@, key, ip)]
          /\ ret' = Result("Record", poolName, key, ip, "")
          /\ allocOnly' = allocOnly \ {poolName}

\* Addresses callers pass to AllocateStatic and Record: the first two host
\* offsets of the pool (one of them its gateway) and the address just past
\* the subnet.
InputIPs(poolName) ==
  IF poolName \in DOMAIN pools
  THEN LET s == pools[poolName].Subnet
       IN { (s.base + o) % Mod : o \in {1, 2} } \cup { (s.base + SizeOf(s)) % Mod }
  ELSE {2}

NewAllocator ==
  /\ pools = <<>>
  /\ ret = Result("NewAllocator", "", NoKey, NoIP, "")
  /\ allocOnly = {}

IpamNext ==
  \/ \E n \in PoolNames, s \in Subnets : \E g \in GatewaysOf(s) : AddPool(n, s, g)
  \/ \E n \in CallNames, k \in Keys : Allocate(n, k)
  \/ \E n \in CallNames, k \in Keys : \E ip \in InputIPs(n) : AllocateStatic(n, k, ip)
  \/ \E n \in CallNames, k \in Keys : Release(n, k)
  \/ \E n \in CallNames, k \in Keys : \E ip \in InputIPs(n) : Record(n, k, ip)

\* ------------------------------------------------------------------------
\* Names.  Strings that the program cuts or rewrites are sequences of
\* one-character strings.
\* ------------------------------------------------------------------------
truncate(s, max) == IF Len(s) > max THEN SubSeq(s, 1, max) ELSE s

LowerAlpha == <<"a","b","c","d","e","f","g","h","i","j","k","l","m",
                "n","o","p","q","r","s","t","u","v","w","x","y","z">>
UpperAlpha == <<"A","B","C","D","E","F","G","H","I","J","K","L","M",
                "N","O","P","Q","R","S","T","U","V","W","X","Y","Z">>
Digits == {"0","1","2","3","4","5","6","7","8","9"}

\* the rune mapping of sanitizeName
sanitizeRune(r) ==
  IF (\E i \in 1 .. 26 : LowerAlpha[i] = r) \/ r \in Digits \/ r = "-" THEN r
  ELSE IF \E i \in 1 .. 26 : UpperAlpha[i] = r
       THEN LowerAlpha[CHOOSE i \in 1 .. 26 : UpperAlpha[i] = r]
       ELSE "-"

sanitizeName(pod, containerName) ==
  LET name == pod.Name \o <<"-">> \o containerName
  IN truncate([i \in 1 .. Len(name) |-> sanitizeRune(name[i])], 32)

podKey(pod) == pod.Namespace \o <<"/">> \o pod.Name

\* fmt.Sprintf("veth-%s-%d", truncate(pod.Name, 8), i)
VethName(pod, i) == <<"veth", truncate(pod.Name, 8), i>>

\* ------------------------------------------------------------------------
\* Pods fed to the provider
\* ------------------------------------------------------------------------
NsDefault == <<"d","e","f","a","u","l","t">>
NsProd == <<"p","r","o","d">>
NameWeb == <<"w","e","b">>
\* nginx carries an HTTP liveness probe, the log sidecar carries none
CtNginx == [Name |-> <<"n","g","i","n","x">>, Image |-> "nginx:1.25",
            LivenessProbe |-> "HTTPGet"]
CtSidecar == [Name |-> <<"l","o","g">>, Image |-> "busybox:1",
              LivenessProbe |-> "nil"]

AnnDependsOn == "mikrotik.io/depends-on"
AnnBootPriority == "mikrotik.io/boot-priority"
NoAnnotations == <<>>

\* Pods named web in namespace default, with two containers (restarted
\* always; annotated with a boot priority of 5 and a dependency on
\* web-nginx) or one (never restarted), and a pod of the same name in
\* namespace prod.
PodUniverse ==
  { [Namespace |-> NsDefault, Name |-> NameWeb, Containers |-> <<CtNginx, CtSidecar>>,
     RestartPolicy |-> "Always",
     Annotations |-> (AnnBootPriority :> <<"5">>) @@
                     (AnnDependsOn :> <<"w","e","b","-","n","g","i","n","x">>)],
    [Namespace |-> NsDefault, Name |-> NameWeb, Containers |-> <<CtNginx>>,
     RestartPolicy |-> "Never", Annotations |-> NoAnnotations],
    [Namespace |-> NsProd, Name |-> NameWeb, Containers |-> <<CtNginx>>,
     RestartPolicy |-> "Always", Annotations |-> NoAnnotations] }

\* veth names callers of the network manager use, and one veth that was
\* created on the device by hand
ExtVeth == <<"veth", <<"e","x","t">>, 0>>
BareVeth == <<"veth", <<"n","e","w">>, 0>>
VethNames == { VethName(p, i - 1) : p \in PodUniverse, i \in 1 .. 2 }

\* ------------------------------------------------------------------------
\* Runtime port (RouterOS client): veths and containers on the device
\* ------------------------------------------------------------------------
\* CreateVeth: an existing name is reported as success and left as it is.
rosCreateVeth(veths, name, ip) ==
  IF name \in DOMAIN veths THEN veths ELSE MapPut(veths, name, ip)

rosRemoveVeth(veths, name) == MapDel(veths, name)

rosCreateContainer(cts, name) == MapPut(cts, name, "stopped")
rosStartContainer(cts, name) == MapPut(cts, name, "running")
rosStopContainer(cts, name) == MapPut(cts, name, "stopped")
rosRemoveContainer(cts, name) == MapDel(cts, name)

\* ------------------------------------------------------------------------
\* pkg/network: Manager
\* ------------------------------------------------------------------------
\* cfg.PodCIDR: a subnet of eight addresses; the gateway defaults to .1
PodSubnet == [ones |-> Bits - 3, base |-> 0]

FreshManager ==
  [subnet |-> PodSubnet, gateway |-> (PodSubnet.base + 1) % Mod,
   allocated |-> <<>>, nextIP |-> 2]

\* allocateIP runs the same scan as allocateFromPool but records nothing.
allocateIP(m) ==
  LET r == allocScan([Subnet |-> m.subnet, Gateway |-> m.gateway,
                      Allocated |-> m.allocated, NextIP |-> m.nextIP],
                     m.nextIP, 0, FALSE)
  IN [ok |-> r.ok, ip |-> r.ip, mgr |-> [m EXCEPT !.nextIP = r.NextIP]]

RECURSIVE syncFold(_, _, _)
syncFold(m, veths, todo) ==
  IF todo = {} THEN m
  ELSE LET v == CHOOSE x \in todo : TRUE
           m1 == IF veths[v] # NoIP /\ Contains(m.subnet, veths[v])
                 THEN [m EXCEPT !.allocated = MapPut(@, v, veths[v])]
                 ELSE m
       IN syncFold(m1, veths, todo \ {v})

\* Variant: the veth list is read but nothing is recorded.
syncExistingAllocations_NoRecord(m, veths) == syncFold(m, veths, {})

\* An address of NoIP stands for the empty Address field of a veth.
syncExistingAllocations(m, veths) == syncFold(m, veths, DOMAIN veths)

\* listOk: ListVeths answered; otherwise the failure is logged and the
\* manager starts with an empty allocation map.
NewManager(veths, listOk) ==
  IF listOk THEN syncExistingAllocations(FreshManager, veths) ELSE FreshManager

VethOutcomes == {"ok", "createVethErr", "bridgeErr", "bridgeErrRollbackErr"}

AllocateInterface(m, veths, vethName, o) ==
  LET a == allocateIP(m)
  IN IF ~a.ok
     THEN [err |-> "Exhausted", ip |-> NoIP, mgr |-> a.mgr, veths |-> veths]
     ELSE IF o = "createVethErr"
     THEN [err |-> "createVeth", ip |-> NoIP, mgr |-> a.mgr, veths |-> veths]
     ELSE LET v1 == rosCreateVeth(veths, vethName, a.ip)
          IN IF o = "bridgeErr"
             THEN [err |-> "addBridgePort", ip |-> NoIP, mgr |-> a.mgr,
                   veths |-> rosRemoveVeth(v1, vethName)]
             ELSE IF o = "bridgeErrRollbackErr"
             THEN [err |-> "addBridgePort", ip |-> NoIP, mgr |-> a.mgr, veths |-> v1]
             ELSE [err |-> "", ip |-> a.ip,
                   mgr |-> [a.mgr EXCEPT !.allocated = MapPut(@, vethName, a.ip)],
                   veths |-> v1]

ReleaseOutcomes == {"ok", "removeVethErr"}

ReleaseInterface(m, veths, vethName, o) ==
  [mgr |-> [m EXCEPT !.allocated = MapDel(@, vethName)],
   veths |-> IF o = "ok" THEN rosRemoveVeth(veths, vethName) ELSE veths]

\* pret: the last network / provider call, its arguments and result, and
\* what the call found when it was entered.
PRes(op) ==
  [op |-> op, pod |-> <<>>, ip |-> NoIP, err |-> "",
   synced |-> FALSE, tracked |-> FALSE, prevIP |-> NoIP,
   \* the calls the handler made on its collaborators, in order
   log |-> <<>>]

NetNewManager(listOk) ==
  /\ mgr' = NewManager(rosVeths, listOk)
  /\ seeded' = DOMAIN mgr'.allocated
  /\ pret' = [PRes("NewManager") EXCEPT !.synced = listOk]
  /\ UNCHANGED <<images, pods, units, rosVeths, rosContainers>>
  /\ UNCHANGED <<ipamVars, supVars, auxVars, regVars, opsVars>>

NetAllocateInterface(vethName, o) ==
  LET r == AllocateInterface(mgr, rosVeths, vethName, o)
  IN /\ mgr' = r.mgr
     /\ rosVeths' = r.veths
     /\ seeded' = IF r.err = "" THEN seeded \ {vethName} ELSE seeded
     /\ pret' = [PRes("AllocateInterface") EXCEPT
                   !.ip = r.ip, !.err = r.err,
                   \* the address a seeded veth of that name held on entry
                   !.prevIP = IF vethName \in seeded
                              THEN mgr.allocated[vethName] ELSE NoIP]
     /\ UNCHANGED <<images, pods, units, rosContainers>>
     /\ UNCHANGED <<ipamVars, supVars, auxVars, regVars, opsVars>>

NetReleaseInterface(vethName, o) ==
  LET r == ReleaseInterface(mgr, rosVeths, vethName, o)
  IN /\ mgr' = r.mgr
     /\ rosVeths' = r.veths
     /\ seeded' = seeded \ {vethName}
     /\ pret' = PRes("ReleaseInterface")
     /\ UNCHANGED <<images, pods, units, rosContainers>>
     /\ UNCHANGED <<ipamVars, supVars, auxVars, regVars, opsVars>>

\* Veths configured on the device by hand before the program first ran:
\* one outside the pod subnet and one without an address.
DeviceVeths ==
  (ExtVeth :> (PodSubnet.base + SizeOf(PodSubnet)) % Mod) @@ (BareVeth :> NoIP)

\* The network manager in one run of the program, without a restart.
NetRunNext ==
  \/ \E v \in VethNames, o \in VethOutcomes : NetAllocateInterface(v, o)
  \/ \E v \in VethNames, o \in ReleaseOutcomes : NetReleaseInterface(v, o)

NetNext ==
  \/ \E ok \in BOOLEAN : NetNewManager(ok)
  \/ \E v \in VethNames, o \in VethOutcomes : NetAllocateInterface(v, o)
  \/ \E v \in VethNames, o \in ReleaseOutcomes : NetReleaseInterface(v, o)

\* ------------------------------------------------------------------------
\* pkg/storage: Manager (image cache) and pkg/systemd: Manager (units)
\* ------------------------------------------------------------------------
\* Bound on CachedImage.InUse, which CreatePod only ever increments.
MaxInUse == 2

\* The image of a pod's first container, which every CreatePod passes to
\* EnsureImage, can still be counted within the bound.
WithinInUse(pod) ==
  LET ref == pod.Containers[1].Image
  IN ref \in DOMAIN images => images[ref] < MaxInUse

\* EnsureImage: a cache hit increments InUse, a miss pulls (the pull is a
\* stub that cannot fail) and records the entry with InUse = 1.
EnsureImage(imgs, imageRef) ==
  IF imageRef \in DOMAIN imgs
  THEN [imgs EXCEPT ![imageRef] = @ + 1]
  ELSE MapPut(imgs, imageRef, 1)

\* ReleaseImage: the count of a cached image goes down by one, not below
\* 0.  No handler of the provider calls it.
ReleaseImage(imgs, imageRef) ==
  IF imageRef \in DOMAIN imgs
  THEN [imgs EXCEPT ![imageRef] = IF @ - 1 < 0 THEN 0 ELSE @ - 1]
  ELSE imgs

extractPriority(pod, index) == index * 10

\* strings.Split(s, ","): the pieces of s between separators
RECURSIVE splitAcc(_, _, _)
splitAcc(s, sep, cur) ==
  IF s = <<>> THEN <<cur>>
  ELSE IF Head(s) = sep THEN <<cur>> \o splitAcc(Tail(s), sep, <<>>)
  ELSE splitAcc(Tail(s), sep, Append(cur, Head(s)))

Split(s, sep) == splitAcc(s, sep, <<>>)

extractDependencies(pod) ==
  IF AnnDependsOn \in DOMAIN pod.Annotations
  THEN Split(pod.Annotations[AnnDependsOn], ",")
  ELSE <<>>

\* A nil *HealthCheck
NoHealthCheck == [Type |-> "nil"]

extractHealthCheck(c) ==
  IF c.LivenessProbe = "HTTPGet" THEN [Type |-> "http"]
  ELSE IF c.LivenessProbe = "TCPSocket" THEN [Type |-> "tcp"]
  ELSE NoHealthCheck

\* The zero time.Time, the value of a LastRestartAt that was never stamped
ZeroTime == 0

Register(us, name, unit) ==
  MapPut(us, name, [unit EXCEPT !.Healthy = TRUE, !.Status = "running"])

Unregister(us, name) == MapDel(us, name)

\* handleUnhealthy: the defaults taken when the configuration holds 0
DefaultMaxRestarts == 5
DefaultCooldown == 10
\* time.Sleep between StopContainer and StartContainer, in seconds
RestartSleep == 2

\* The clock when the program starts: further from the zero time than any
\* cooldown.
StartTime == ZeroTime + DefaultCooldown

\* sret: the last supervisor call, the units it found, the units it handed
\* to handleUnhealthy (with the time of the call), the units it saw recover,
\* the runtime calls it issued and, for BootSequence, the sequence returned;
\* cycle tells an odd tick of the watchdog's ticker from an even one;
\* elapsed is the time ExecuteBootSequence took, in milliseconds.
SRes(op) ==
  [op |-> op, pre |-> <<>>, handled |-> <<>>, recovered |-> {}, log |-> <<>>,
   seq |-> <<>>, cycle |-> 0, elapsed |-> 0]

\* No CreatePod / UpdatePod is running.
NoCall == [op |-> "none"]
\* GetPodStatus has not been asked.
NoStatus == [err |-> "none"]
\* The tasks that call the provider, and a task that is in no call.
TaskIds == {1, 2}
Idle == [op |-> "none"]
NoTasks == [t \in TaskIds |-> Idle]

\* A ContainerUnit as a caller hands it to Register.
Unit(name, policy, check, deps, priority, restarts) ==
  [Name |-> name, ContainerID |-> name, RestartPolicy |-> policy,
   HealthCheck |-> check, DependsOn |-> deps, Priority |-> priority,
   RestartCount |-> restarts, LastRestartAt |-> ZeroTime,
   Healthy |-> FALSE, Status |-> ""]

\* What the supervisor actions leave alone.
supFrame == <<mgr, images, pods, rosVeths, seeded, pret, supCfg>>

RegisterUnit(u) ==
  /\ units' = Register(units, u.Name, u)
  /\ sret' = SRes("Register")
  /\ UNCHANGED <<supFrame, rosContainers, now, ipamVars, auxVars, regVars, opsVars>>

UnregisterUnit(name) ==
  /\ name \in DOMAIN units
  /\ units' = Unregister(units, name)
  /\ sret' = SRes("Unregister")
  /\ UNCHANGED <<supFrame, rosContainers, now, ipamVars, auxVars, regVars, opsVars>>

\* All orders of the elements of S, as sequences.
RECURSIVE Orders(_)
Orders(S) ==
  IF S = {} THEN {<<>>}
  ELSE UNION { { <<x>> \o s : s \in Orders(S \ {x}) } : x \in S }

\* Variant: the units are left in the order the map yields them.
SortedOrders_Unsorted(us) == Orders(DOMAIN us)

\* sort.Slice by Priority over the units collected from the map: the map
\* yields them in any order and the sort is not stable, so units of equal
\* priority come out in any order.
SortedOrders(us) ==
  { s \in Orders(DOMAIN us) :
      \A i, j \in 1 .. Len(s) : i < j => us[s[i]].Priority <= us[s[j]].Priority }

\* topoSort: visit marks the unit, visits the registered dependencies in
\* the order of DependsOn and then appends the unit.  acc carries visited
\* and result.
RECURSIVE visit(_, _, _), visitDeps(_, _, _)
\* Variant: the unit is appended on every visit, marked or not.
visit_AppendAlways(u, unitMap, acc) ==
  LET a2 == IF u \in acc.visited THEN acc
            ELSE visitDeps(unitMap[u].DependsOn, unitMap,
                           [acc EXCEPT !.visited = @ \cup {u}])
  IN [a2 EXCEPT !.result = Append(@, u)]

visitDeps(deps, unitMap, acc) ==
  IF deps = <<>> THEN acc
  ELSE visitDeps(Tail(deps), unitMap,
                 IF Head(deps) \in DOMAIN unitMap
                 THEN visit(Head(deps), unitMap, acc) ELSE acc)

visit(u, unitMap, acc) ==
  IF u \in acc.visited THEN acc
  ELSE LET a1 == [acc EXCEPT !.visited = @ \cup {u}]
           a2 == visitDeps(unitMap[u].DependsOn, unitMap, a1)
       IN [a2 EXCEPT !.result = Append(@, u)]

RECURSIVE visitAll(_, _, _)
visitAll(sorted, unitMap, acc) ==
  IF sorted = <<>> THEN acc
  ELSE visitAll(Tail(sorted), unitMap, visit(Head(sorted), unitMap, acc))

\* Variant: the sorted units are returned as they are.
topoSort_PriorityOnly(sorted, unitMap) == sorted

topoSort(sorted, unitMap) ==
  visitAll(sorted, unitMap, [visited |-> {}, result |-> <<>>]).result

BootSequence ==
  /\ \E sorted \in SortedOrders(units) :
        sret' = [SRes("BootSequence") EXCEPT
                   !.pre = units, !.seq = topoSort(sorted, units)]
  /\ UNCHANGED <<supFrame, units, rosContainers, now, ipamVars, auxVars, regVars, opsVars>>

\* Units registered for boot ordering: the database / app pair of the
\* tests, a cache between them (with and without a dependency on the
\* database), a second cache that ties with app, an app
\* that also names itself and an unregistered unit, and a database that
\* depends on app.
UDatabase == <<"d","a","t","a","b","a","s","e">>
UApp == <<"a","p","p">>
UCache == <<"c","a","c","h","e">>
UMissing == <<"d","n","s">>
HTTP == [Type |-> "http"]

BootUniverse ==
  { Unit(UDatabase, "Always", HTTP, <<>>, 20, 0),
    Unit(UDatabase, "Always", HTTP, <<UApp>>, 20, 0),
    Unit(UApp, "Always", HTTP, <<UDatabase>>, 10, 0),
    Unit(UApp, "Always", HTTP, <<UMissing, UApp>>, 10, 0),
    Unit(UApp, "Always", HTTP, <<>>, 10, 0),
    Unit(UCache, "Always", HTTP, <<>>, 15, 0),
    Unit(UCache, "Always", HTTP, <<UDatabase>>, 15, 0),
    Unit(UCache, "Always", HTTP, <<>>, 10, 0) }

\* Bound on the seconds the clock runs past StartTime.
MaxElapsed == 12

maxRestartsOf(cfg) ==
  IF cfg.MaxRestarts = 0 THEN DefaultMaxRestarts ELSE cfg.MaxRestarts

cooldownOf(cfg) ==
  IF cfg.RestartCooldown = 0 THEN DefaultCooldown ELSE cfg.RestartCooldown

\* StopContainer / StartContainer as the watchdog uses them: a call that
\* fails, or names a container the device does not have, changes nothing.
stopIfPresent(cts, id, ok) ==
  IF ok /\ id \in DOMAIN cts THEN rosStopContainer(cts, id) ELSE cts
startIfPresent(cts, id, ok) ==
  IF ok /\ id \in DOMAIN cts THEN rosStartContainer(cts, id) ELSE cts

\* Variant: the container is started and then stopped.
restartUnit_StartFirst(unit, cts, t, o) ==
  [unit |-> [unit EXCEPT !.Status = "restarting",
                         !.RestartCount = @ + 1,
                         !.LastRestartAt = t + RestartSleep],
   cts |-> stopIfPresent(startIfPresent(cts, unit.ContainerID, o.startOk),
                         unit.ContainerID, o.stopOk),
   t |-> t + RestartSleep,
   log |-> << <<"StartContainer", unit.ContainerID>>,
              <<"StopContainer", unit.ContainerID>> >>]

\* The restart of handleUnhealthy: status, stop, sleep, start, count, stamp.
restartUnit(unit, cts, t, o) ==
  [unit |-> [unit EXCEPT !.Status = "restarting",
                         !.RestartCount = @ + 1,
                         !.LastRestartAt = t + RestartSleep],
   cts |-> startIfPresent(stopIfPresent(cts, unit.ContainerID, o.stopOk),
                          unit.ContainerID, o.startOk),
   t |-> t + RestartSleep,
   log |-> << <<"StopContainer", unit.ContainerID>>,
              <<"StartContainer", unit.ContainerID>> >>]

\* Variant: the restart budget is not consulted.
handleUnhealthy_NoBudget(unit, cfg, cts, t, o) ==
  IF unit.RestartPolicy \in {"Always", "OnFailure"}
  THEN IF t - unit.LastRestartAt < cooldownOf(cfg)
       THEN [unit |-> unit, cts |-> cts, t |-> t, log |-> <<>>]
       ELSE restartUnit(unit, cts, t, o)
  ELSE IF unit.RestartPolicy = "Never"
  THEN [unit |-> [unit EXCEPT !.Status = "stopped"], cts |-> cts, t |-> t,
        log |-> <<>>]
  ELSE [unit |-> unit, cts |-> cts, t |-> t, log |-> <<>>]

\* Variant: the restart policy is not consulted.
handleUnhealthy_AnyPolicy(unit, cfg, cts, t, o) ==
  IF unit.RestartCount >= maxRestartsOf(cfg)
  THEN [unit |-> [unit EXCEPT !.Status = "failed"], cts |-> cts, t |-> t,
        log |-> <<>>]
  ELSE IF t - unit.LastRestartAt < cooldownOf(cfg)
  THEN [unit |-> unit, cts |-> cts, t |-> t, log |-> <<>>]
  ELSE restartUnit(unit, cts, t, o)

\* handleUnhealthy at time t; o tells whether StopContainer and
\* StartContainer succeed.  The result carries the unit, the device, the
\* time when the handler returns and the runtime calls it issued.
handleUnhealthy(unit, cfg, cts, t, o) ==
  IF unit.RestartPolicy \in {"Always", "OnFailure"}
  THEN IF unit.RestartCount >= maxRestartsOf(cfg)
       THEN [unit |-> [unit EXCEPT !.Status = "failed"], cts |-> cts, t |-> t,
             log |-> <<>>]
       ELSE IF t - unit.LastRestartAt < cooldownOf(cfg)
       THEN [unit |-> unit, cts |-> cts, t |-> t, log |-> <<>>]
       ELSE restartUnit(unit, cts, t, o)
  ELSE IF unit.RestartPolicy = "Never"
  THEN [unit |-> [unit EXCEPT !.Status = "stopped"], cts |-> cts, t |-> t,
        log |-> <<>>]
  ELSE [unit |-> unit, cts |-> cts, t |-> t, log |-> <<>>]

\* performHealthCheck: the answer of an http or tcp probe is the
\* environment's (probe); any other type asks the device for the status of
\* the container called unit.Name.
performHealthCheck(unit, cts, probe) ==
  IF unit.HealthCheck.Type \in {"http", "tcp"} THEN probe
  ELSE unit.Name \in DOMAIN cts /\ cts[unit.Name] = "running"

\* The body of the loop of checkAll for one unit.
checkUnit(st, name, probe, o) ==
  LET unit == st.units[name]
      healthy == performHealthCheck(unit, st.cts, probe)
      u1 == [unit EXCEPT !.Healthy = healthy]
      h == handleUnhealthy(u1, st.cfg, st.cts, st.t, o)
  IN IF unit.HealthCheck = NoHealthCheck THEN st
     ELSE IF unit.Healthy /\ ~healthy
     THEN [st EXCEPT !.units[name] = h.unit, !.cts = h.cts, !.t = h.t,
                     !.log = @ \o h.log,
                     !.handled = MapPut(@, name, st.t)]
     ELSE IF ~unit.Healthy /\ healthy
     THEN [st EXCEPT !.units[name] = [u1 EXCEPT !.Status = "running"],
                     !.recovered = @ \cup {name}]
     ELSE [st EXCEPT !.units[name] = u1]

\* checkAll over the units in the order the map yields them.
RECURSIVE checkAll(_, _, _, _)
checkAll(st, order, probes, o) ==
  IF order = <<>> THEN st
  ELSE checkAll(checkUnit(st, Head(order), probes[Head(order)], o),
                Tail(order), probes, o)

RestartOutcomes == [stopOk : BOOLEAN, startOk : BOOLEAN]

\* One cycle of RunWatchdog.
CheckAll(order, probes, o) ==
  /\ Len(order) = Cardinality(DOMAIN units)
  /\ \E r \in {checkAll([units |-> units, cts |-> rosContainers, cfg |-> supCfg,
                          t |-> now, log |-> <<>>, handled |-> <<>>,
                          recovered |-> {}], order, probes, o)} :
       /\ r.t <= StartTime + MaxElapsed
       /\ units' = r.units
       /\ rosContainers' = r.cts
       /\ now' = r.t
       /\ sret' = [SRes("checkAll") EXCEPT
                     !.pre = units, !.handled = r.handled,
                     !.recovered = r.recovered, !.log = r.log]
  /\ UNCHANGED <<supFrame, ipamVars, auxVars, regVars, opsVars>>

\* Time passes between two watchdog cycles.
Tick(d) ==
  /\ now + d <= StartTime + MaxElapsed
  /\ now' = now + d
  /\ UNCHANGED <<supFrame, units, rosContainers, sret, ipamVars, auxVars, regVars, opsVars>>

\* A container exits on the device.
RuntimeContainerExits(name) ==
  /\ name \in DOMAIN rosContainers
  /\ rosContainers[name] = "running"
  /\ rosContainers' = rosStopContainer(rosContainers, name)
  /\ UNCHANGED <<supFrame, units, now, sret, ipamVars, auxVars, regVars, opsVars>>

\* Units under the watchdog: a database restarted always, fresh or one
\* restart short of the default budget; a database restarted on failure
\* whose check is the container status; a cache that is never restarted; a
\* cache without a health check.
SupUniverse ==
  { Unit(UDatabase, "Always", HTTP, <<>>, 20, 0),
    Unit(UDatabase, "Always", HTTP, <<>>, 20, DefaultMaxRestarts - 1),
    Unit(UDatabase, "OnFailure", [Type |-> "status"], <<>>, 20, 0),
    Unit(UCache, "Never", [Type |-> "tcp"], <<>>, 15, 0),
    Unit(UCache, "Always", NoHealthCheck, <<>>, 15, 0) }

SupNames == { u.Name : u \in SupUniverse }

\* The configured budget and cooldown: the defaults, or one restart and a
\* cooldown of two sleeps.
SupConfigs ==
  { [MaxRestarts |-> 0, RestartCooldown |-> 0],
    [MaxRestarts |-> 1, RestartCooldown |-> 2 * RestartSleep] }

SupNext ==
  \/ \E u \in SupUniverse : RegisterUnit(u)
  \/ \E n \in SupNames : UnregisterUnit(n)
  \/ \E order \in Orders(DOMAIN units) :
       \E probes \in [DOMAIN units -> BOOLEAN] :
         \E o \in RestartOutcomes : CheckAll(order, probes, o)
  \/ \E d \in {RestartSleep, DefaultCooldown} : Tick(d)
  \/ \E n \in SupNames : RuntimeContainerExits(n)

\* Milliseconds: the wait for a unit to become healthy, the ticker of that
\* wait, and the pause after a start.
BootHealthTimeout == 30000
BootHealthTick == 2000
BootPause == 500

\* waitForHealthy from tick k on: the probe answers healthy from tick
\* healthyAt on (0: never); when the deadline and a tick fall together
\* the select takes either, deadlineFirst says which.
RECURSIVE waitFrom(_, _, _, _, _)
waitFrom(unit, cts, healthyAt, deadlineFirst, k) ==
  IF \/ k * BootHealthTick > BootHealthTimeout
     \/ k * BootHealthTick = BootHealthTimeout /\ deadlineFirst
  THEN [err |-> TRUE, elapsed |-> BootHealthTimeout]
  ELSE IF performHealthCheck(unit, cts, healthyAt # 0 /\ k >= healthyAt)
  THEN [err |-> FALSE, elapsed |-> k * BootHealthTick]
  ELSE waitFrom(unit, cts, healthyAt, deadlineFirst, k + 1)

waitForHealthy(unit, cts, healthyAt, deadlineFirst) ==
  waitFrom(unit, cts, healthyAt, deadlineFirst, 1)

\* The loop of ExecuteBootSequence over the rest of the sequence.
RECURSIVE bootFrom(_, _, _, _, _, _)
bootFrom(st, seq, us, startFails, healthyAt, deadlineFirst) ==
  IF seq = <<>> THEN st
  ELSE LET unit == us[Head(seq)]
           called == [st EXCEPT !.log = Append(@, <<"StartContainer", unit.ContainerID>>)]
           cts == startIfPresent(st.cts, unit.ContainerID, TRUE)
           w == IF unit.HealthCheck # NoHealthCheck
                THEN waitForHealthy(unit, cts, healthyAt[unit.Name], deadlineFirst)
                ELSE [err |-> FALSE, elapsed |-> 0]
       IN bootFrom(IF unit.Name \in startFails THEN called
                   ELSE [called EXCEPT !.cts = cts,
                                       !.elapsed = @ + w.elapsed + BootPause],
                   Tail(seq), us, startFails, healthyAt, deadlineFirst)

\* Variant: a start that fails ends the boot.
bootSequenceFrom_StopAtFailure(st, seq, us, startFails, healthyAt, deadlineFirst) ==
  IF seq # <<>> /\ Head(seq) \in startFails
  THEN [st EXCEPT !.log = Append(@, <<"StartContainer", us[Head(seq)].ContainerID>>)]
  ELSE bootFrom(st, seq, us, startFails, healthyAt, deadlineFirst)

executeBootSequence(st, seq, us, startFails, healthyAt, deadlineFirst) ==
  bootFrom(st, seq, us, startFails, healthyAt, deadlineFirst)

\* ExecuteBootSequence: StartContainer fails for the units in startFails.
ExecuteBootSequence(startFails, healthyAt, deadlineFirst) ==
  /\ \E sorted \in SortedOrders(units) :
       \E seq \in {topoSort(sorted, units)} :
         \E r \in {executeBootSequence([cts |-> rosContainers, log |-> <<>>,
                                         elapsed |-> 0],
                                        seq, units, startFails, healthyAt,
                                        deadlineFirst)} :
           /\ rosContainers' = r.cts
           /\ sret' = [SRes("ExecuteBootSequence") EXCEPT
                         !.pre = units, !.seq = seq, !.log = r.log,
                         !.elapsed = r.elapsed]
  /\ UNCHANGED <<supFrame, units, now, ipamVars, auxVars, regVars, opsVars>>

\* cfg.WatchdogInterval, in seconds
WatchdogInterval == 4

\* Times are kept relative to the end of a cycle: the clock goes back to
\* StartTime and every LastRestartAt goes back by as much, a restart further
\* back than ZeroTime staying at ZeroTime. StartTime + WatchdogInterval -
\* ZeroTime is no less than any cooldown, so no comparison with a cooldown
\* changes.
rebase(us, shift) ==
  [n \in DOMAIN us |->
     [us[n] EXCEPT !.LastRestartAt =
        IF @ - shift < ZeroTime THEN ZeroTime ELSE @ - shift]]

\* RunWatchdog: the ticker fires and checkAll runs.
WatchdogCycle(order, probes, o) ==
  /\ Len(order) = Cardinality(DOMAIN units)
  /\ \E r \in {checkAll([units |-> units, cts |-> rosContainers, cfg |-> supCfg,
                          t |-> now + WatchdogInterval, log |-> <<>>,
                          handled |-> <<>>, recovered |-> {}], order, probes, o)} :
       /\ units' = rebase(r.units, r.t - StartTime)
       /\ rosContainers' = r.cts
       /\ now' = StartTime
       /\ sret' = [SRes("checkAll") EXCEPT
                     !.pre = units, !.handled = r.handled,
                     !.recovered = r.recovered, !.log = r.log,
                     !.cycle = 1 - sret.cycle]
  /\ UNCHANGED <<supFrame, ipamVars, auxVars, regVars, opsVars>>

\* A database that is always restarted, fresh or one restart short of the
\* default budget.
LiveUniverse == { u \in SupUniverse : u.Name = UDatabase /\ u.RestartPolicy = "Always" }

LiveNext ==
  \E order \in Orders(DOMAIN units) :
    \E probes \in [DOMAIN units -> BOOLEAN] :
      \E o \in RestartOutcomes : WatchdogCycle(order, probes, o)

BootNames == {UDatabase, UApp, UCache}

\* No start fails or one does; the probes answer healthy at the first
\* tick, at the tick of the deadline, or never, the database possibly never
\* while the others do at once.
StartFailures == {{}} \cup { {n} : n \in BootNames }
HealthyAts ==
  { [n \in BootNames |-> h] : h \in {0, 1, 15} }
  \cup { [n \in BootNames |-> IF n = UDatabase THEN 0 ELSE 1] }

ExecNext ==
  \/ \E u \in BootUniverse : RegisterUnit(u)
  \/ \E n \in BootNames : UnregisterUnit(n)
  \/ \E startFails \in StartFailures, healthyAt \in HealthyAts,
        deadlineFirst \in BOOLEAN :
       ExecuteBootSequence(startFails, healthyAt, deadlineFirst)

BootNext ==
  \/ \E u \in BootUniverse : RegisterUnit(u)
  \/ \E n \in {UDatabase, UApp, UCache} : UnregisterUnit(n)
  \/ BootSequence

\* ------------------------------------------------------------------------
\* pkg/provider: MikroTikProvider
\* ------------------------------------------------------------------------
NoFailure == [at |-> 0, step |-> "none"]

CreateSteps == {"createVethErr", "bridgeErr", "bridgeErrRollbackErr",
                "create", "get", "start"}
CreateFailures(pod) ==
  {NoFailure} \cup [at : 0 .. (Len(pod.Containers) - 1), step : CreateSteps]

DeleteSteps == {"stop", "remove", "removeVethErr"}
DeleteFailures(pod) ==
  {NoFailure} \cup [at : 0 .. (Len(pod.Containers) - 1), step : DeleteSteps]

Fails(f, i, step) == f.at = i /\ f.step = step

\* The loop of CreatePod over the containers from index i on.  st carries
\* the managers and the device; f names the runtime call that fails.
RECURSIVE createContainers(_, _, _, _)
createContainers(st, pod, i, f) ==
  IF i >= Len(pod.Containers) THEN [st |-> st, err |-> ""]
  ELSE
    LET container == pod.Containers[i + 1]
        name == sanitizeName(pod, container.Name)
        st1 == [st EXCEPT !.images = EnsureImage(@, container.Image),
                          !.log = Append(@, <<"EnsureImage", container.Image>>)]
        vethName == VethName(pod, i)
        o == IF f.at = i /\ f.step \in VethOutcomes THEN f.step ELSE "ok"
        n == AllocateInterface(st1.mgr, st1.veths, vethName, o)
        st2 == [st1 EXCEPT !.mgr = n.mgr, !.veths = n.veths,
                           !.seeded = IF n.err = "" THEN @ \ {vethName} ELSE @,
                           !.log = Append(@, <<"AllocateInterface", vethName>>)]
        startOnBoot == pod.RestartPolicy = "Always"
        st2c == [st2 EXCEPT !.log = Append(@, <<"CreateContainer", name>>)]
        st3 == [st2c EXCEPT !.cts = rosCreateContainer(@, name)]
        st3s == [st3 EXCEPT !.log = Append(@, <<"StartContainer", name>>)]
        st4 == [st3s EXCEPT !.cts = rosStartContainer(@, name)]
        unit == [Name |-> name, ContainerID |-> name,
                 RestartPolicy |-> pod.RestartPolicy,
                 HealthCheck |-> extractHealthCheck(container),
                 DependsOn |-> extractDependencies(pod),
                 Priority |-> extractPriority(pod, i),
                 RestartCount |-> 0, LastRestartAt |-> ZeroTime,
                 Healthy |-> FALSE, Status |-> ""]
        st5 == IF startOnBoot
               THEN [st4 EXCEPT !.units = Register(@, name, unit),
                                !.log = Append(@, <<"Register", name, unit.Priority>>)]
               ELSE st4
    IN IF n.err # "" THEN [st |-> st2, err |-> "allocating network"]
       ELSE IF Fails(f, i, "create") THEN [st |-> st2c, err |-> "creating container"]
       ELSE IF Fails(f, i, "get") THEN [st |-> st3, err |-> "getting created container"]
       ELSE IF Fails(f, i, "start") THEN [st |-> st3s, err |-> "starting container"]
       ELSE createContainers(st5, pod, i + 1, f)

\* The loop of DeletePod.  A container that GetContainer does not return is
\* skipped with continue.
RECURSIVE deleteContainers(_, _, _, _)
deleteContainers(st, pod, i, g) ==
  IF i >= Len(pod.Containers) THEN st
  ELSE
    LET name == sanitizeName(pod, pod.Containers[i + 1].Name)
        found == name \in DOMAIN st.cts
        st0 == IF st.cts[name] = "running"
               THEN [st EXCEPT !.log = Append(@, <<"StopContainer", name>>)] ELSE st
        st1 == IF st.cts[name] = "running" /\ ~Fails(g, i, "stop")
               THEN [st0 EXCEPT !.cts = rosStopContainer(@, name)] ELSE st0
        st2 == [(IF Fails(g, i, "remove") THEN st1
                 ELSE [st1 EXCEPT !.cts = rosRemoveContainer(@, name)])
                EXCEPT !.log = Append(@, <<"RemoveContainer", name>>)]
        vethName == VethName(pod, i)
        r == ReleaseInterface(st2.mgr, st2.veths, vethName,
                              IF Fails(g, i, "removeVethErr")
                              THEN "removeVethErr" ELSE "ok")
        st3 == [st2 EXCEPT !.mgr = r.mgr, !.veths = r.veths,
                           !.seeded = @ \ {vethName},
                           !.units = Unregister(@, name),
                           !.log = @ \o << <<"ReleaseInterface", vethName>>,
                                           <<"Unregister", name>> >>]
    IN IF ~found THEN deleteContainers(st, pod, i + 1, g)
       ELSE deleteContainers(st3, pod, i + 1, g)

\* log: the calls made so far by the handler that is running
World ==
  [mgr |-> mgr, veths |-> rosVeths, cts |-> rosContainers, units |-> units,
   images |-> images, seeded |-> seeded, log |-> <<>>]

SetWorld(st) ==
  /\ mgr' = st.mgr
  /\ rosVeths' = st.veths
  /\ rosContainers' = st.cts
  /\ units' = st.units
  /\ images' = st.images
  /\ seeded' = st.seeded

\* Variant: an entry that exists is not replaced.
TrackPod_KeepOld(ps, pod) ==
  IF podKey(pod) \in DOMAIN ps THEN ps ELSE MapPut(ps, podKey(pod), pod)

\* p.pods[podKey(pod)] = pod.DeepCopy()
TrackPod(ps, pod) == MapPut(ps, podKey(pod), pod)

\* What CreatePod does to the provider, its managers and the device.
CreatePodBody(pod, f) ==
  /\ WithinInUse(pod)
  /\ \E r \in {createContainers(World, pod, 0, f)} :
     /\ \A ref \in DOMAIN r.st.images : r.st.images[ref] <= MaxInUse
     /\ SetWorld(r.st)
     /\ pods' = IF r.err = "" THEN TrackPod(pods, pod) ELSE pods
     /\ pret' = [PRes("CreatePod") EXCEPT
                   !.pod = pod, !.err = r.err, !.log = r.st.log,
                   !.tracked = podKey(pod) \in DOMAIN pods]

CreatePod(pod, f) ==
  /\ CreatePodBody(pod, f)
  /\ UNCHANGED <<ipamVars, supVars, auxVars, regVars, opsVars>>

DeletePod(pod, g) ==
  /\ \E st \in {deleteContainers(World, pod, 0, g)} :
        /\ SetWorld(st)
        /\ pret' = [PRes("DeletePod") EXCEPT
                      !.pod = pod, !.log = st.log,
                      !.tracked = podKey(pod) \in DOMAIN pods /\ pods[podKey(pod)] = pod]
  /\ UNCHANGED <<ipamVars, supVars, auxVars, regVars, opsVars>>
  /\ pods' = MapDel(pods, podKey(pod))

\* Variant: the replacement is created before the old containers are
\* removed.
updateContainers_CreateFirst(st, pod, g, f) ==
  LET r == createContainers(st, pod, 0, f)
  IN [st |-> deleteContainers(r.st, pod, 0, g), err |-> r.err]

\* UpdatePod: DeletePod, whose result is only logged, then CreatePod.
updateContainers(st, pod, g, f) ==
  createContainers(deleteContainers(st, pod, 0, g), pod, 0, f)

UpdatePodBody(pod, g, f) ==
  /\ WithinInUse(pod)
  /\ \E r \in {updateContainers(World, pod, g, f)} :
     /\ \A ref \in DOMAIN r.st.images : r.st.images[ref] <= MaxInUse
     /\ SetWorld(r.st)
     /\ pods' = IF r.err = "" THEN TrackPod(MapDel(pods, podKey(pod)), pod)
                ELSE MapDel(pods, podKey(pod))
     /\ pret' = [PRes("UpdatePod") EXCEPT
                   !.pod = pod, !.err = r.err, !.log = r.st.log,
                   !.tracked = podKey(pod) \in DOMAIN pods]

UpdatePod(pod, g, f) ==
  /\ UpdatePodBody(pod, g, f)
  /\ UNCHANGED <<ipamVars, supVars, auxVars, regVars, opsVars>>

\* The pods the provider has marked as being created or updated.  The
\* provider keeps no such marker: MikroTikProvider holds deps, the pod map
\* and the start time, and CreatePod and UpdatePod write only the pod map.
inFlight == {}

\* CreatePod / UpdatePod is entered for pod and has not returned yet.
BeginCall(op, pod) ==
  /\ inProgress = NoCall
  /\ inProgress' = [op |-> op, pod |-> pod]
  /\ UNCHANGED <<provVars, ipamVars, supVars, podStatus, tasks, regVars, opsVars>>

\* The running CreatePod returns.
FinishCreatePod(pod, f) ==
  /\ inProgress = [op |-> "CreatePod", pod |-> pod]
  /\ CreatePodBody(pod, f)
  /\ inProgress' = NoCall
  /\ UNCHANGED <<ipamVars, supVars, podStatus, tasks, regVars, opsVars>>

\* The running UpdatePod returns.
FinishUpdatePod(pod, g, f) ==
  /\ inProgress = [op |-> "UpdatePod", pod |-> pod]
  /\ UpdatePodBody(pod, g, f)
  /\ inProgress' = NoCall
  /\ UNCHANGED <<ipamVars, supVars, podStatus, tasks, regVars, opsVars>>

\* One tick of RunStandaloneReconciler: reconcile makes no call and
\* returns nil.  The loop runs in its own goroutine, so a tick may fall
\* while a CreatePod / UpdatePod is running.
reconcile ==
  /\ pret' = PRes("reconcile")
  /\ UNCHANGED <<mgr, images, pods, units, rosVeths, rosContainers, seeded>>
  /\ UNCHANGED <<ipamVars, supVars, auxVars, regVars, opsVars>>

FlightNext ==
  \/ \E p \in PodUniverse : BeginCall("CreatePod", p)
  \/ \E p \in PodUniverse : BeginCall("UpdatePod", p)
  \/ \E p \in PodUniverse : \E f \in CreateFailures(p) : FinishCreatePod(p, f)
  \/ \E p \in PodUniverse : \E g \in DeleteFailures(p) :
       \E f \in CreateFailures(p) : FinishUpdatePod(p, g, f)
  \/ reconcile

GetPod(namespace, name) ==
  LET key == namespace \o <<"/">> \o name
  IN IF key \in DOMAIN pods THEN [found |-> TRUE, pod |-> pods[key]]
     ELSE [found |-> FALSE]

\* Variant: an error status is reported as waiting.
containerState_ErrorWaits(found, status) ==
  IF ~found THEN [Ready |-> FALSE, State |-> "Waiting", Reason |-> "ContainerNotFound"]
  ELSE IF status = "running" THEN [Ready |-> TRUE, State |-> "Running", Reason |-> ""]
  ELSE IF status = "stopped"
  THEN [Ready |-> FALSE, State |-> "Terminated", Reason |-> status]
  ELSE [Ready |-> FALSE, State |-> "Waiting", Reason |-> status]

\* GetPodStatus: the state reported for one container.  found is false when
\* GetContainer returned an error.
containerState(found, status) ==
  IF ~found THEN [Ready |-> FALSE, State |-> "Waiting", Reason |-> "ContainerNotFound"]
  ELSE IF status = "running" THEN [Ready |-> TRUE, State |-> "Running", Reason |-> ""]
  ELSE IF status \in {"stopped", "error"}
  THEN [Ready |-> FALSE, State |-> "Terminated", Reason |-> status]
  ELSE [Ready |-> FALSE, State |-> "Waiting", Reason |-> status]

\* The loop of GetPodStatus over the containers from index i on; acc
\* carries containerStatuses and allRunning.
RECURSIVE statusLoop(_, _, _, _)
statusLoop(pod, cts, i, acc) ==
  IF i >= Len(pod.Containers) THEN acc
  ELSE
    LET container == pod.Containers[i + 1]
        rosName == sanitizeName(pod, container.Name)
        found == rosName \in DOMAIN cts
        s == containerState(found, IF found THEN cts[rosName] ELSE "")
        cs == [Name |-> container.Name, Image |-> container.Image,
               Ready |-> s.Ready, State |-> s.State, Reason |-> s.Reason]
    IN statusLoop(pod, cts, i + 1,
                  [containerStatuses |-> Append(acc.containerStatuses, cs),
                   allRunning |-> acc.allRunning /\ s.State = "Running"])

boolToConditionStatus(b) == IF b THEN "True" ELSE "False"

GetPodStatus(namespace, name) ==
  LET g == GetPod(namespace, name)
  IN IF ~g.found
     THEN [namespace |-> namespace, name |-> name, err |-> "NotFound"]
     ELSE LET r == statusLoop(g.pod, rosContainers, 0,
                              [containerStatuses |-> <<>>, allRunning |-> TRUE])
          IN [namespace |-> namespace, name |-> name, err |-> "",
              Phase |-> IF r.allRunning THEN "Running" ELSE "Pending",
              ContainerStatuses |-> r.containerStatuses,
              Conditions |-> [Ready |-> boolToConditionStatus(r.allRunning),
                              PodScheduled |-> "True"]]

\* A caller asks for the status of a pod.
AskPodStatus(namespace, name) ==
  /\ podStatus' = GetPodStatus(namespace, name)
  /\ UNCHANGED <<provVars, ipamVars, supVars, inProgress, tasks, regVars, opsVars>>

\* The tracker contents and the device contents GetPodStatus is asked
\* about: at most one pod per key, and any of the statuses the device
\* reports for any of the containers.
RuntimeStatuses == {"running", "stopped", "error", "extracting"}

Trackers ==
  { ps \in [ { podKey(p) : p \in PodUniverse } -> PodUniverse \cup {<<>>} ] :
      \A k \in DOMAIN ps : ps[k] # <<>> => podKey(ps[k]) = k }

TrackerOf(ps) ==
  [ k \in { x \in DOMAIN ps : ps[x] # <<>> } |-> ps[k] ]

StatusNext ==
  \E p \in PodUniverse : AskPodStatus(p.Namespace, p.Name)

RECURSIVE MapValues(_)
MapValues(m) ==
  IF DOMAIN m = {} THEN <<>>
  ELSE LET k == CHOOSE x \in DOMAIN m : TRUE
       IN <<m[k]>> \o MapValues(MapDel(m, k))

GetPods == MapValues(pods)

\* A container disappears from the device (removed by an operator).
RuntimeRemoveContainer(name) ==
  /\ name \in DOMAIN rosContainers
  /\ rosContainers' = rosRemoveContainer(rosContainers, name)
  /\ pret' = PRes("RuntimeRemoveContainer")
  /\ UNCHANGED <<mgr, images, pods, units, rosVeths, seeded>>
  /\ UNCHANGED <<ipamVars, supVars, auxVars, regVars, opsVars>>

ContainerNames ==
  UNION { { sanitizeName(p, p.Containers[i].Name) : i \in 1 .. Len(p.Containers) } :
          p \in PodUniverse }

ProvNext ==
  \/ \E p \in PodUniverse : \E f \in CreateFailures(p) : CreatePod(p, f)
  \/ \E p \in PodUniverse : \E g \in DeleteFailures(p) : DeletePod(p, g)
  \/ \E n \in ContainerNames : RuntimeRemoveContainer(n)

\* ------------------------------------------------------------------------
\* pkg/provider: the calls of several tasks and their accesses to p.pods
\* ------------------------------------------------------------------------
\* The calls of the tasks: the two pods web of one container, in the
\* namespaces default and prod; a CreatePod may fail at the start of its
\* container.
TaskPods == { p \in PodUniverse : Len(p.Containers) = 1 }
TaskFailures == { NoFailure, [at |-> 0, step |-> "start"] }

\* MikroTikProvider has no mutex: a call reaches its statement on p.pods
\* whenever its task runs.  A task at that statement is inside the map
\* operation (access "write" for p.pods[k] = v and delete, "read" for the
\* lookup and the range) until MapAccessEnds.
AtMap(op, pod, access) == [op |-> op, pod |-> pod, access |-> access]

InMap(t) == tasks[t].op \notin {"none", "fatal"}

\* Two map operations overlap and one of them writes.
Racing(t, u) ==
  /\ t # u /\ InMap(t) /\ InMap(u)
  /\ tasks[t].access = "write" \/ tasks[u].access = "write"

\* CreatePod up to "Track the pod"
TaskCreatePod(t, pod, f) ==
  /\ tasks[t] = Idle
  /\ WithinInUse(pod)
  /\ \E r \in {createContainers(World, pod, 0, f)} :
     /\ \A ref \in DOMAIN r.st.images : r.st.images[ref] <= MaxInUse
     /\ SetWorld(r.st)
     /\ tasks' = IF r.err = "" THEN [tasks EXCEPT ![t] = AtMap("CreatePod", pod, "write")]
                 ELSE tasks
     /\ pret' = [PRes("CreatePod") EXCEPT !.pod = pod, !.err = r.err, !.log = r.st.log]
  /\ UNCHANGED <<pods, ipamVars, supVars, inProgress, podStatus, regVars, opsVars>>

\* DeletePod up to delete(p.pods, ...); UpdatePod is in its DeletePod
TaskDeletePod(t, op, pod, g) ==
  /\ tasks[t] = Idle
  /\ \E st \in {deleteContainers(World, pod, 0, g)} :
     /\ SetWorld(st)
     /\ pret' = [PRes(op) EXCEPT !.pod = pod, !.log = st.log]
  /\ tasks' = [tasks EXCEPT ![t] = AtMap(op, pod, "write")]
  /\ UNCHANGED <<pods, ipamVars, supVars, inProgress, podStatus, regVars, opsVars>>

\* GetPod, GetPods and GetPodStatus begin with their read of p.pods
TaskRead(t, op, pod) ==
  /\ tasks[t] = Idle
  /\ tasks' = [tasks EXCEPT ![t] = AtMap(op, pod, "read")]
  /\ UNCHANGED <<provVars, ipamVars, supVars, inProgress, podStatus, regVars, opsVars>>

\* The map operation of task t ends and the call goes on to its return;
\* UpdatePod goes on with CreatePod.  An operation that overlapped with a
\* write of another task may have taken effect or not.
MapAccessEnds(t) ==
  /\ InMap(t)
  /\ \E took \in IF \E u \in TaskIds : Racing(t, u) THEN BOOLEAN ELSE {TRUE},
        f \in IF tasks[t].op = "UpdatePod" THEN TaskFailures ELSE {NoFailure} :
     LET c == tasks[t]
         ps == IF ~took THEN pods
               ELSE IF c.op = "CreatePod" THEN TrackPod(pods, c.pod)
               ELSE IF c.op \in {"DeletePod", "UpdatePod"} THEN MapDel(pods, podKey(c.pod))
               ELSE pods
     IN /\ pods' = ps
        /\ IF c.op = "UpdatePod"
           THEN /\ WithinInUse(c.pod)
                /\ \E r \in {createContainers(World, c.pod, 0, f)} :
                   /\ \A ref \in DOMAIN r.st.images : r.st.images[ref] <= MaxInUse
                   /\ SetWorld(r.st)
                   /\ tasks' = [tasks EXCEPT ![t] =
                                  IF r.err = "" THEN AtMap("CreatePod", c.pod, "write")
                                  ELSE Idle]
                   /\ pret' = [PRes("UpdatePod") EXCEPT
                                 !.pod = c.pod, !.err = r.err, !.log = r.st.log]
                /\ UNCHANGED podStatus
           ELSE /\ tasks' = [tasks EXCEPT ![t] = Idle]
                /\ pret' = [PRes(c.op) EXCEPT !.pod = c.pod]
                /\ podStatus' = IF c.op = "GetPodStatus" /\ took
                                THEN GetPodStatus(c.pod.Namespace, c.pod.Name)
                                ELSE podStatus
                /\ UNCHANGED <<mgr, images, units, rosVeths, rosContainers, seeded>>
  /\ UNCHANGED <<ipamVars, supVars, inProgress, regVars, opsVars>>

\* The runtime detects the overlapping map operations and ends the
\* process ("fatal error: concurrent map writes").
ConcurrentMapFault ==
  /\ \E t, u \in TaskIds : Racing(t, u)
  /\ tasks' = [t \in TaskIds |-> [op |-> "fatal"]]
  /\ UNCHANGED <<provVars, ipamVars, supVars, inProgress, podStatus, regVars, opsVars>>

TaskNext ==
  \/ \E t \in TaskIds, p \in TaskPods, f \in TaskFailures : TaskCreatePod(t, p, f)
  \/ \E t \in TaskIds, p \in TaskPods, op \in {"DeletePod", "UpdatePod"} :
       TaskDeletePod(t, op, p, NoFailure)
  \/ \E t \in TaskIds, p \in TaskPods, op \in {"GetPod", "GetPods", "GetPodStatus"} :
       TaskRead(t, op, p)
  \/ \E t \in TaskIds : MapAccessEnds(t)
  \/ ConcurrentMapFault

\* ------------------------------------------------------------------------
\* pkg/registry: BlobStore
\* ------------------------------------------------------------------------
\* The files below <root>/manifests and <root>/blobs, each a map from the
\* path below that directory to the contents of the file.
NewBlobStore == [manifests |-> <<>>, blobs |-> <<>>]

\* rret: the last registry call with its arguments and what it returned.
\* For a request: its path and the handler it was routed to (kind), its
\* method, the status, headers and body (data) of the
\* response, whether the store missed, the answers of the upstreams and how
\* many of them were contacted, and what the pull-throughs before it cached.
RRes(op) ==
  [op |-> op, repo |-> <<>>, ref |-> <<>>, err |-> FALSE, data |-> "",
   contentType |-> "", exists |-> FALSE, size |-> 0, repos |-> <<>>,
   method |-> "", status |-> 0, headers |-> <<>>, miss |-> FALSE,
   ups |-> <<>>, tried |-> 0, pre |-> <<>>, path |-> <<>>, kind |-> ""]

\* hist: for every manifest and blob, what the latest successful
\* PutManifest and the first successful PutBlob wrote, and the bytes a
\* successful pull-through cached for a resource.
NoHistory == [manifestPut |-> <<>>, blobPut |-> <<>>, pulled |-> <<>>]

DefaultManifestType == "application/vnd.docker.distribution.manifest.v2+json"

\* strings.ReplaceAll(s, old, new) for one-character old and new
ReplaceAll(s, old, new) ==
  [i \in 1 .. Len(s) |-> IF s[i] = old THEN new ELSE s[i]]

JsonSuffix == <<".","j","s","o","n">>
TypeSuffix == <<".","t","y","p","e">>

\* The path of a manifest below <root>/manifests
manifestPath(repo, ref) ==
  repo \o <<"/">> \o ReplaceAll(ref, ":", "-") \o JsonSuffix

\* strings.SplitN(s, sep, 2)
SplitN2(s, sep) ==
  IF \E i \in 1 .. Len(s) : s[i] = sep
  THEN LET i == CHOOSE k \in 1 .. Len(s) :
                  s[k] = sep /\ \A j \in 1 .. (k - 1) : s[j] # sep
       IN <<SubSeq(s, 1, i - 1), SubSeq(s, i + 1, Len(s))>>
  ELSE <<s>>

\* The path of a blob below <root>/blobs
blobPath(digest) ==
  LET parts == SplitN2(digest, ":")
  IN IF Len(parts) # 2 THEN <<"s","h","a","2","5","6","/">> \o digest
     ELSE parts[1] \o <<"/">> \o parts[2]

\* A reader hands over data and then ends, or fails after it handed over
\* data.
Reader(data, err) == [data |-> data, err |-> err]

GetBlob(fs, digest) ==
  IF blobPath(digest) \in DOMAIN fs.blobs
  THEN [err |-> FALSE, data |-> fs.blobs[blobPath(digest)]]
  ELSE [err |-> TRUE, data |-> ""]

HasBlob(fs, digest) ==
  IF blobPath(digest) \in DOMAIN fs.blobs
  THEN [exists |-> TRUE, size |-> Len(fs.blobs[blobPath(digest)])]
  ELSE [exists |-> FALSE, size |-> 0]

\* PutBlob: os.Create truncates the file, io.Copy writes what the reader
\* hands over and returns the reader's error.
PutBlob(fs, digest, r) ==
  [fs |-> [fs EXCEPT !.blobs = MapPut(@, blobPath(digest), r.data)],
   err |-> r.err]

GetManifest(fs, repo, ref) ==
  LET dataPath == manifestPath(repo, ref)
      typePath == dataPath \o TypeSuffix
  IN IF dataPath \notin DOMAIN fs.manifests
     THEN [err |-> TRUE, data |-> "", contentType |-> ""]
     ELSE [err |-> FALSE, data |-> fs.manifests[dataPath],
           contentType |-> IF typePath \in DOMAIN fs.manifests
                           THEN fs.manifests[typePath]
                           ELSE DefaultManifestType]

\* PutManifest: io.ReadAll fails before anything is written; the type file
\* is written only for a content type that is not empty.
PutManifest(fs, repo, ref, contentType, r) ==
  LET dataPath == manifestPath(repo, ref)
      f1 == MapPut(fs.manifests, dataPath, r.data)
      f2 == IF contentType # "" THEN MapPut(f1, dataPath \o TypeSuffix, contentType)
            ELSE f1
  IN IF r.err THEN [fs |-> fs, err |-> TRUE]
     ELSE [fs |-> [fs EXCEPT !.manifests = f2], err |-> FALSE]

\* The order of bytes, for the characters file names are made of
ByteOrder ==
  <<"-", ".", "/", "0", "1", "2", "3", "4", "5", "6", "7", "8", "9", ":">>
  \o LowerAlpha

ByteRank(c) == CHOOSE i \in 1 .. Len(ByteOrder) : ByteOrder[i] = c

\* a < b for strings, as sort.Strings and filepath.Walk compare them
RECURSIVE StrLess(_, _)
StrLess(a, b) ==
  IF b = <<>> THEN FALSE
  ELSE IF a = <<>> THEN TRUE
  ELSE IF Head(a) # Head(b) THEN ByteRank(Head(a)) < ByteRank(Head(b))
  ELSE StrLess(Tail(a), Tail(b))

\* p is walked before q: filepath.Walk visits the entries of a directory
\* in the order of their names, a directory before what it holds.
RECURSIVE componentsLess(_, _)
componentsLess(p, q) ==
  IF q = <<>> THEN FALSE
  ELSE IF p = <<>> THEN TRUE
  ELSE IF Head(p) # Head(q) THEN StrLess(Head(p), Head(q))
  ELSE componentsLess(Tail(p), Tail(q))

walkedBefore(p, q) == componentsLess(Split(p, "/"), Split(q, "/"))

RECURSIVE walkOrder(_)
walkOrder(paths) ==
  IF paths = {} THEN <<>>
  ELSE LET p == CHOOSE x \in paths : \A y \in paths \ {x} : walkedBefore(x, y)
       IN <<p>> \o walkOrder(paths \ {p})

HasSuffix(s, suffix) ==
  Len(s) >= Len(suffix) /\ SubSeq(s, Len(s) - Len(suffix) + 1, Len(s)) = suffix

\* filepath.Dir of a path below the manifests directory, relative to it
\* ("." for a file in the directory itself)
relDir(path) ==
  LET slashes == { i \in 1 .. Len(path) : path[i] = "/" }
  IN IF slashes = {} THEN <<".">>
     ELSE SubSeq(path, 1, (CHOOSE i \in slashes : \A j \in slashes : j <= i) - 1)

appendUnique(slice, item) ==
  IF \E i \in 1 .. Len(slice) : slice[i] = item THEN slice ELSE Append(slice, item)

\* sort.Strings, by insertion
RECURSIVE insertSorted(_, _)
insertSorted(sorted, s) ==
  IF sorted = <<>> THEN <<s>>
  ELSE IF StrLess(s, Head(sorted)) THEN <<s>> \o sorted
  ELSE <<Head(sorted)>> \o insertSorted(Tail(sorted), s)

RECURSIVE sortStrings(_)
sortStrings(seq) ==
  IF seq = <<>> THEN <<>> ELSE insertSorted(sortStrings(Tail(seq)), Head(seq))

\* The walk of ListRepositories over the files in walk order.
RECURSIVE collectRepos(_, _)
collectRepos(walk, repos) ==
  IF walk = <<>> THEN repos
  ELSE LET path == Head(walk)
           rel == relDir(path)
       IN collectRepos(Tail(walk),
                       IF ~HasSuffix(path, TypeSuffix) /\ rel # <<".">>
                       THEN appendUnique(repos, rel) ELSE repos)

ListRepositories(fs) ==
  sortStrings(collectRepos(walkOrder(DOMAIN fs.manifests), <<>>))

\* Repositories a, a/b and a-b; a tag and a digest as references; two
\* manifest bodies and two content types besides the empty one.
RepoA == <<"a">>
RepoAB == <<"a","/","b">>
RepoADashB == <<"a","-","b">>
TagV1 == <<"v","1">>
RefDigest == <<"s","h","a",":","1">>
ManifestKeys ==
  { <<RepoA, RefDigest>>, <<RepoAB, TagV1>>, <<RepoADashB, TagV1>> }
ManifestBodies == {"manifest-1", "manifest-22"}
OciManifestType == "application/vnd.oci.image.manifest.v1+json"
ContentTypes == {"", DefaultManifestType, OciManifestType}

\* Blob digests and blob bodies; a reader may fail after part of a body.
DigestA == <<"s","h","a","2","5","6",":","a","1">>
DigestB == <<"s","h","a","2","5","6",":","b","2">>
Digests == {DigestA, DigestB}
BlobReaders ==
  { Reader("layer-a1", FALSE), Reader("layer-b2-long", FALSE), Reader("lay", TRUE) }
ManifestReaders ==
  { Reader(b, FALSE) : b \in ManifestBodies } \cup { Reader("mani", TRUE) }

StorePutManifest(repo, ref, contentType, r) ==
  \E res \in {PutManifest(files, repo, ref, contentType, r)} :
    /\ files' = res.fs
    /\ rret' = [RRes("PutManifest") EXCEPT !.repo = repo, !.ref = ref,
                                           !.err = res.err]
    /\ hist' = IF res.err THEN hist
               ELSE [hist EXCEPT !.manifestPut =
                       MapPut(@, <<repo, ref>>,
                              [data |-> r.data, contentType |-> contentType])]
    /\ UNCHANGED <<provVars, ipamVars, supVars, auxVars, opsVars>>

StoreGetManifest(repo, ref) ==
  \E res \in {GetManifest(files, repo, ref)} :
    /\ rret' = [RRes("GetManifest") EXCEPT
                  !.repo = repo, !.ref = ref, !.err = res.err,
                  !.data = res.data, !.contentType = res.contentType]
    /\ UNCHANGED <<files, hist, provVars, ipamVars, supVars, auxVars, opsVars>>

StoreListRepositories ==
  /\ rret' = [RRes("ListRepositories") EXCEPT !.repos = ListRepositories(files)]
  /\ UNCHANGED <<files, hist, provVars, ipamVars, supVars, auxVars, opsVars>>

StorePutBlob(digest, r) ==
  \E res \in {PutBlob(files, digest, r)} :
    /\ files' = res.fs
    /\ rret' = [RRes("PutBlob") EXCEPT !.ref = digest, !.err = res.err]
    /\ hist' = IF res.err \/ digest \in DOMAIN hist.blobPut THEN hist
               ELSE [hist EXCEPT !.blobPut = MapPut(@, digest, r.data)]
    /\ UNCHANGED <<provVars, ipamVars, supVars, auxVars, opsVars>>

StoreGetBlob(digest) ==
  \E res \in {GetBlob(files, digest)} :
    /\ rret' = [RRes("GetBlob") EXCEPT !.ref = digest, !.err = res.err,
                                       !.data = res.data]
    /\ UNCHANGED <<files, hist, provVars, ipamVars, supVars, auxVars, opsVars>>

StoreHasBlob(digest) ==
  \E res \in {HasBlob(files, digest)} :
    /\ rret' = [RRes("HasBlob") EXCEPT !.ref = digest, !.exists = res.exists,
                                       !.size = res.size]
    /\ UNCHANGED <<files, hist, provVars, ipamVars, supVars, auxVars, opsVars>>

ManifestStoreNext ==
  \/ \E k \in ManifestKeys, ct \in ContentTypes, r \in ManifestReaders :
       StorePutManifest(k[1], k[2], ct, r)
  \/ \E k \in ManifestKeys : StoreGetManifest(k[1], k[2])
  \/ StoreListRepositories

\* The catalog: two references in the repositories a and a/b, one in a-b,
\* and the reference b/v1 in a, as handleV2 takes it from the path
\* /v2/a/manifests/b/v1.
RefNested == <<"b","/","v","1">>
CatalogKeys ==
  ManifestKeys \cup { <<RepoA, TagV1>>, <<RepoAB, RefDigest>>, <<RepoA, RefNested>> }
CatalogReaders == { Reader("manifest-1", FALSE), Reader("mani", TRUE) }

CatalogNext ==
  \/ \E k \in CatalogKeys, r \in CatalogReaders :
       StorePutManifest(k[1], k[2], OciManifestType, r)
  \/ StoreListRepositories

\* Manifests of one repository: a digest reference, the same reference
\* written with "-" for ":", and a tag.
RefDash == <<"s","h","a","-","1">>
FrameKeys == { <<RepoA, RefDigest>>, <<RepoA, RefDash>>, <<RepoA, TagV1>> }

ManifestFrameNext ==
  \/ \E k \in FrameKeys, ct \in {"", OciManifestType}, r \in ManifestReaders :
       StorePutManifest(k[1], k[2], ct, r)
  \/ \E k \in FrameKeys : StoreGetManifest(k[1], k[2])

BlobStoreNext ==
  \/ \E d \in Digests, r \in BlobReaders : StorePutBlob(d, r)
  \/ \E d \in Digests : StoreGetBlob(d)
  \/ \E d \in Digests : StoreHasBlob(d)

\* ------------------------------------------------------------------------
\* pkg/registry: the HTTP handlers
\* ------------------------------------------------------------------------
\* The registry: its store and cfg.PullThrough.
NewRegistry(pullThrough) ==
  [manifests |-> <<>>, blobs |-> <<>>, pullThrough |-> pullThrough]

OctetStream == "application/octet-stream"
TextPlain == "text/plain; charset=utf-8"

\* A response: the status, the headers the handler set, and the body.
Response(status, headers, body) ==
  [status |-> status, headers |-> headers, body |-> body]

\* http.NotFound and http.Error
httpError(status, msg) ==
  Response(status, "Content-Type" :> TextPlain, msg)

\* The outcome of a handler: the store, the response, and the number of
\* upstreams that were contacted.
Served(fs, resp, tried) == [fs |-> fs, resp |-> resp, tried |-> tried]

\* What an upstream does with a request: http.DefaultClient.Do fails, or
\* it answers with a status, headers and a body that is then read.
Upstream(err, status, contentType, digest, body) ==
  [err |-> err, status |-> status, contentType |-> contentType,
   digest |-> digest, body |-> body]

RECURSIVE pullManifestFrom(_, _, _, _, _)
pullManifestFrom(fs, repo, ref, ups, i) ==
  IF i > Len(ups)
  THEN Served(fs, httpError(404, "manifest not found on any upstream"), Len(ups))
  ELSE IF ups[i].err \/ ups[i].status >= 400
  THEN pullManifestFrom(fs, repo, ref, ups, i + 1)
  ELSE LET put == PutManifest(fs, repo, ref, ups[i].contentType, ups[i].body)
           got == GetManifest(put.fs, repo, ref)
       IN IF put.err THEN Served(put.fs, httpError(500, "cache error"), i)
          ELSE IF got.err THEN Served(put.fs, httpError(500, "cache read error"), i)
          ELSE Served(put.fs,
                      Response(200,
                               IF ups[i].digest # <<>>
                               THEN ("Content-Type" :> got.contentType)
                                    @@ ("Docker-Content-Digest" :> ups[i].digest)
                               ELSE "Content-Type" :> got.contentType,
                               got.data),
                      i)

\* Variant: the manifest is cached under the digest the upstream names.
pullThroughManifest_KeyedByDigest(fs, repo, ref, ups) ==
  LET r == pullManifestFrom(fs, repo, ref, ups, 1)
  IN IF r.resp.status # 200 THEN r
     ELSE [r EXCEPT !.fs = pullManifestFrom(fs, repo, ups[r.tried].digest, ups, 1).fs]

pullThroughManifest(fs, repo, ref, ups) == pullManifestFrom(fs, repo, ref, ups, 1)

RECURSIVE pullBlobFrom(_, _, _, _)
pullBlobFrom(fs, digest, ups, i) ==
  IF i > Len(ups)
  THEN Served(fs, httpError(404, "blob not found on any upstream"), Len(ups))
  ELSE IF ups[i].err \/ ups[i].status >= 400
  THEN pullBlobFrom(fs, digest, ups, i + 1)
  ELSE LET put == PutBlob(fs, digest, ups[i].body)
           got == GetBlob(put.fs, digest)
       IN IF put.err THEN Served(put.fs, httpError(500, "cache error"), i)
          ELSE IF got.err THEN Served(put.fs, httpError(500, "cache read error"), i)
          ELSE Served(put.fs,
                      Response(200,
                               ("Content-Type" :> OctetStream)
                               @@ ("Content-Length" :> ToString(Len(got.data)))
                               @@ ("Docker-Content-Digest" :> digest),
                               got.data),
                      i)

pullThroughBlob(fs, digest, ups) == pullBlobFrom(fs, digest, ups, 1)

handleManifest(fs, method, repo, ref, reqType, reqBody, ups) ==
  LET got == GetManifest(fs, repo, ref)
      put == PutManifest(fs, repo, ref, reqType, reqBody)
  IN CASE method = "GET" ->
            IF ~got.err
            THEN Served(fs, Response(200,
                                     ("Content-Type" :> got.contentType)
                                     @@ ("Docker-Content-Digest" :> ref),
                                     got.data), 0)
            ELSE IF fs.pullThrough THEN pullThroughManifest(fs, repo, ref, ups)
            ELSE Served(fs, httpError(404, "404 page not found"), 0)
       [] method = "HEAD" ->
            IF ~got.err
            THEN Served(fs, Response(200,
                                     ("Content-Type" :> got.contentType)
                                     @@ ("Content-Length" :> ToString(Len(got.data)))
                                     @@ ("Docker-Content-Digest" :> ref),
                                     ""), 0)
            ELSE Served(fs, httpError(404, "404 page not found"), 0)
       [] method = "PUT" ->
            IF put.err THEN Served(put.fs, httpError(500, "read error"), 0)
            ELSE Served(put.fs, Response(201, "Docker-Content-Digest" :> ref, ""), 0)
       [] OTHER -> Served(fs, Response(405, <<>>, ""), 0)

handleBlob(fs, method, digest, ups) ==
  LET got == GetBlob(fs, digest)
      has == HasBlob(fs, digest)
  IN CASE method = "GET" ->
            IF ~got.err
            THEN Served(fs, Response(200,
                                     ("Content-Type" :> OctetStream)
                                     @@ ("Content-Length" :> ToString(Len(got.data)))
                                     @@ ("Docker-Content-Digest" :> digest),
                                     got.data), 0)
            ELSE IF fs.pullThrough THEN pullThroughBlob(fs, digest, ups)
            ELSE Served(fs, httpError(404, "404 page not found"), 0)
       [] method = "HEAD" ->
            IF has.exists
            THEN Served(fs, Response(200,
                                     ("Content-Length" :> ToString(has.size))
                                     @@ ("Docker-Content-Digest" :> digest),
                                     ""), 0)
            ELSE Served(fs, httpError(404, "404 page not found"), 0)
       [] OTHER -> Served(fs, Response(405, <<>>, ""), 0)

\* The requests: manifests a:v1 and a:sha:1, the blob sha256:a1, two
\* upstreams.
RegKeys == { <<RepoA, TagV1>>, <<RepoA, RefDigest>> }
UpstreamDigest == <<"s","h","a",":","9">>
NoReader == Reader("", FALSE)
ManifestUpstreams ==
  { Upstream(TRUE, 0, "", <<>>, NoReader),
    Upstream(FALSE, 404, TextPlain, <<>>, NoReader),
    Upstream(FALSE, 500, TextPlain, <<>>, NoReader),
    Upstream(FALSE, 200, OciManifestType, UpstreamDigest, Reader("manifest-1", FALSE)),
    Upstream(FALSE, 200, OciManifestType, UpstreamDigest, Reader("mani", TRUE)) }
BlobUpstreams ==
  { Upstream(TRUE, 0, "", <<>>, NoReader),
    Upstream(FALSE, 404, TextPlain, <<>>, NoReader),
    Upstream(FALSE, 500, TextPlain, <<>>, NoReader),
    Upstream(FALSE, 200, OctetStream, DigestA, Reader("layer-a1", FALSE)),
    Upstream(FALSE, 200, OctetStream, DigestA, Reader("lay", TRUE)) }
NoUpstreams == <<>>

ManifestResource(repo, ref) == <<"manifests", repo, ref>>
BlobResource(digest) == <<"blobs", <<>>, digest>>

\* After a request: a pull-through that answered 200 cached the body it
\* served; a PUT that succeeded replaces what was pulled.
Pulled(key, method, r) ==
  IF method = "GET" /\ r.tried > 0 /\ r.resp.status = 200
  THEN MapPut(hist.pulled, key, r.resp.body)
  ELSE IF method = "PUT" /\ r.resp.status = 201
  THEN [k \in DOMAIN hist.pulled \ {key} |-> hist.pulled[k]]
  ELSE hist.pulled

ServeManifest(method, repo, ref, reqType, reqBody, ups) ==
  \E r \in {handleManifest(files, method, repo, ref, reqType, reqBody, ups)} :
    /\ files' = r.fs
    /\ rret' = [RRes("handleManifest") EXCEPT
                  !.method = method, !.repo = repo, !.ref = ref,
                  !.status = r.resp.status, !.headers = r.resp.headers,
                  !.data = r.resp.body, !.tried = r.tried, !.ups = ups,
                  !.miss = GetManifest(files, repo, ref).err,
                  !.pre = hist.pulled]
    /\ hist' = [hist EXCEPT !.pulled = Pulled(ManifestResource(repo, ref), method, r)]
    /\ UNCHANGED <<provVars, ipamVars, supVars, auxVars, opsVars>>

ServeBlob(method, digest, ups) ==
  \E r \in {handleBlob(files, method, digest, ups)} :
    /\ files' = r.fs
    /\ rret' = [RRes("handleBlob") EXCEPT
                  !.method = method, !.ref = digest,
                  !.status = r.resp.status, !.headers = r.resp.headers,
                  !.data = r.resp.body, !.tried = r.tried, !.ups = ups,
                  !.miss = GetBlob(files, digest).err,
                  !.pre = hist.pulled]
    /\ hist' = [hist EXCEPT !.pulled = Pulled(BlobResource(digest), method, r)]
    /\ UNCHANGED <<provVars, ipamVars, supVars, auxVars, opsVars>>

GetManifestRequest ==
  \E k \in RegKeys, u1, u2 \in ManifestUpstreams :
    ServeManifest("GET", k[1], k[2], "", NoReader, <<u1, u2>>)

HeadManifestRequest ==
  \E k \in RegKeys : ServeManifest("HEAD", k[1], k[2], "", NoReader, NoUpstreams)

PutManifestRequest ==
  \E k \in RegKeys, ct \in {"", DefaultManifestType}, r \in CatalogReaders :
    ServeManifest("PUT", k[1], k[2], ct, r, NoUpstreams)

GetBlobRequest ==
  \E u1, u2 \in BlobUpstreams : ServeBlob("GET", DigestA, <<u1, u2>>)

HeadBlobRequest == ServeBlob("HEAD", DigestA, NoUpstreams)

OtherRequest ==
  \/ \E k \in RegKeys : ServeManifest("DELETE", k[1], k[2], "", NoReader, NoUpstreams)
  \/ ServeBlob("PUT", DigestA, NoUpstreams)

RegNext ==
  \/ GetManifestRequest
  \/ HeadManifestRequest
  \/ PutManifestRequest
  \/ GetBlobRequest
  \/ HeadBlobRequest
  \/ OtherRequest

\* ------------------------------------------------------------------------
\* pkg/registry: Registry.handleV2, the routing of /v2/ paths
\* ------------------------------------------------------------------------
V2Prefix == <<"/","v","2","/">>
KwManifests == <<"m","a","n","i","f","e","s","t","s">>
KwBlobs == <<"b","l","o","b","s">>

HasPrefix(s, prefix) ==
  Len(s) >= Len(prefix) /\ SubSeq(s, 1, Len(prefix)) = prefix

\* strings.TrimPrefix
TrimPrefix(s, prefix) ==
  IF HasPrefix(s, prefix) THEN SubSeq(s, Len(prefix) + 1, Len(s)) ELSE s

\* strings.SplitN(s, sep, n) for a one-character sep and n > 0
RECURSIVE SplitN(_, _, _)
SplitN(s, sep, n) ==
  IF n = 1 \/ ~(\E i \in 1 .. Len(s) : s[i] = sep) THEN <<s>>
  ELSE LET parts == SplitN2(s, sep)
       IN <<parts[1]>> \o SplitN(parts[2], sep, n - 1)

\* strings.Join(elems, sep)
RECURSIVE Join(_, _)
Join(elems, sep) ==
  IF elems = <<>> THEN <<>>
  ELSE IF Len(elems) = 1 THEN elems[1]
  ELSE elems[1] \o sep \o Join(Tail(elems), sep)

\* strings.LastIndex(s, substr): the byte index of the last occurrence, or
\* -1
LastIndex(s, substr) ==
  LET at == { i \in 1 .. (Len(s) - Len(substr) + 1) :
                SubSeq(s, i, i + Len(substr) - 1) = substr }
  IN IF at = {} THEN 0 - 1
     ELSE (CHOOSE i \in at : \A j \in at : j <= i) - 1

IsKeyword(part) == part = KwManifests \/ part = KwBlobs

\* The loop over parts[len(parts)-2] .. parts[0]: the first keyword part
\* found sets the three names.
RECURSIVE scanParts(_, _)
scanParts(parts, i) ==
  IF i < 0 THEN [repoName |-> <<>>, resourceType |-> <<>>, reference |-> <<>>]
  ELSE IF IsKeyword(parts[i + 1])
  THEN [repoName |-> Join(SubSeq(parts, 1, i), <<"/">>),
        resourceType |-> parts[i + 1], reference |-> parts[i + 2]]
  ELSE scanParts(parts, i - 1)

\* The fallback for an empty repoName: the last "/manifests/" of the
\* trimmed path, else the last "/blobs/".
fallbackParse(trimmed, found) ==
  LET sepM == <<"/">> \o KwManifests \o <<"/">>
      sepB == <<"/">> \o KwBlobs \o <<"/">>
      idxM == LastIndex(trimmed, sepM)
      idxB == LastIndex(trimmed, sepB)
  IN IF idxM >= 0
     THEN [repoName |-> SubSeq(trimmed, 1, idxM), resourceType |-> KwManifests,
           reference |-> SubSeq(trimmed, idxM + Len(sepM) + 1, Len(trimmed))]
     ELSE IF idxB >= 0
     THEN [repoName |-> SubSeq(trimmed, 1, idxB), resourceType |-> KwBlobs,
           reference |-> SubSeq(trimmed, idxB + Len(sepB) + 1, Len(trimmed))]
     ELSE found

\* The names handleV2 takes from a path that is not the base endpoint, or
\* resourceType <<>> for a path it answers with 404.
NoRoute == [repoName |-> <<>>, resourceType |-> <<>>, reference |-> <<>>]

parseV2(path) ==
  LET trimmed == TrimPrefix(path, V2Prefix)
      parts == SplitN(trimmed, "/", 3)
  IN IF Len(parts) < 3 THEN NoRoute
     ELSE LET found == scanParts(parts, Len(parts) - 2)
              names == IF found.repoName = <<>>
                       THEN fallbackParse(trimmed, found) ELSE found
          IN IF names.repoName = <<>> \/ names.reference = <<>>
             THEN NoRoute ELSE names

handleV2(fs, method, path, reqType, reqBody, ups) ==
  IF path = V2Prefix \/ path = <<"/","v","2">>
  THEN Served(fs, Response(200, "Docker-Distribution-API-Version" :> "registry/2.0", ""), 0)
  ELSE LET names == parseV2(path)
       IN IF names.resourceType = KwManifests
          THEN handleManifest(fs, method, names.repoName, names.reference,
                              reqType, reqBody, ups)
          ELSE IF names.resourceType = KwBlobs
          THEN handleBlob(fs, method, names.reference, ups)
          ELSE Served(fs, httpError(404, "404 page not found"), 0)

\* The handler a request is handed to.
RoutedTo(path) ==
  IF path = V2Prefix \/ path = <<"/","v","2">> THEN "base"
  ELSE LET names == parseV2(path)
       IN IF names.resourceType = KwManifests THEN "handleManifest"
          ELSE IF names.resourceType = KwBlobs THEN "handleBlob"
          ELSE "notFound"

ServeV2(method, path, reqType, reqBody, ups) ==
  \E r \in {handleV2(files, method, path, reqType, reqBody, ups)},
     names \in {parseV2(path)} :
    /\ files' = r.fs
    /\ rret' = [RRes("handleV2") EXCEPT
                  !.method = method, !.path = path, !.kind = RoutedTo(path),
                  !.repo = names.repoName, !.ref = names.reference,
                  !.status = r.resp.status, !.headers = r.resp.headers,
                  !.data = r.resp.body, !.tried = r.tried, !.ups = ups]
    /\ UNCHANGED <<hist, provVars, ipamVars, supVars, auxVars, opsVars>>

\* Requests: repositories of one, three and more segments, among them
\* repositories with a segment named blobs or manifests; a tag and a
\* digest; the two resource types; and paths that name no resource.
SegA == <<"a">>
SegB == <<"b">>
SegC == <<"c">>
RepoSegments ==
  { <<SegA>>, <<SegA, SegB, SegC>>, <<SegA, KwBlobs>>,
    <<SegA, SegB, KwManifests, SegC>> }
V2References == { TagV1, RefDigest }
V2Targets == RepoSegments \X {KwManifests, KwBlobs} \X V2References

PathOf(target) ==
  V2Prefix \o Join(target[1], <<"/">>) \o <<"/">> \o target[2] \o <<"/">>
           \o target[3]

V2Paths ==
  { PathOf(x) : x \in V2Targets } \cup
  { V2Prefix, V2Prefix \o SegA, V2Prefix \o SegA \o <<"/">> \o KwManifests,
    V2Prefix \o Join(<<SegA, SegB, SegC>>, <<"/">>) }

V2Next ==
  \E method \in {"GET", "PUT"}, path \in V2Paths :
    ServeV2(method, path, OciManifestType, Reader("manifest-1", FALSE), NoUpstreams)


\* ------------------------------------------------------------------------
\* pkg/storage: Manager.runGC
\* ------------------------------------------------------------------------
DefaultGCKeepLastN == 5

\* m.images by reference (InUse, PulledAt), m.volumes by key (the container
\* a volume belongs to), the tarballs and volume directories on the device,
\* the configuration, and what the last runGC saw and removed.
StorageManager(imgs, vols, cfg) ==
  [images |-> imgs, volumes |-> vols,
   files |-> DOMAIN imgs \cup DOMAIN vols, cfg |-> cfg,
   ret |-> [ran |-> FALSE, pre |-> <<>>, removed |-> {}]]

NewStorageManager ==
  StorageManager(<<>>, <<>>, [GCKeepLastN |-> 0, GCDryRun |-> FALSE])

CachedImage(pulledAt, inUse) == [PulledAt |-> pulledAt, InUse |-> inUse]

\* Six cached images, pulled one after the other, each in use or not; one
\* volume of the container web.
ImageList == <<"img1", "img2", "img3", "img4", "img5", "img6">>
ImageRefs == { ImageList[i] : i \in 1 .. Len(ImageList) }
ImageCaches ==
  { [ref \in ImageRefs |->
       CachedImage(CHOOSE i \in 1 .. Len(ImageList) : ImageList[i] = ref,
                   IF ref \in used THEN 1 ELSE 0)] :
      used \in SUBSET ImageRefs }
VolumeKey == "web-data"
Volumes == (VolumeKey :> [ContainerName |-> "web"])
GCConfigs == [GCKeepLastN : {0, 2}, GCDryRun : BOOLEAN]

keepNOf(cfg) == IF cfg.GCKeepLastN = 0 THEN DefaultGCKeepLastN ELSE cfg.GCKeepLastN

Candidates(imgs) == { ref \in DOMAIN imgs : imgs[ref].InUse = 0 }

\* The candidates are collected in the iteration order of the map m.images,
\* which is not specified: any len(candidates)-keepN of them may come first.
FirstCandidates(imgs, keepN) ==
  IF Cardinality(Candidates(imgs)) > keepN
  THEN { S \in SUBSET Candidates(imgs) :
           Cardinality(S) = Cardinality(Candidates(imgs)) - keepN }
  ELSE { {} }

\* runGC: first are the candidates in front of the last keepN, failing the
\* files RemoveFile cannot remove, listing what ListContainers answers.
runGC(m, first, failing, listing) ==
  LET gone == IF m.cfg.GCDryRun THEN {} ELSE first \ failing
      orphaned ==
        IF listing.err THEN {}
        ELSE { k \in DOMAIN m.volumes : m.volumes[k].ContainerName \notin listing.names }
      goneVols == IF m.cfg.GCDryRun THEN {} ELSE orphaned \ failing
  IN [m EXCEPT
        !.images = [ref \in DOMAIN m.images \ gone |-> m.images[ref]],
        !.volumes = [k \in DOMAIN m.volumes \ goneVols |-> m.volumes[k]],
        !.files = @ \ (gone \cup goneVols),
        !.ret = [ran |-> TRUE, pre |-> m.images, removed |-> gone \cup goneVols]]

Listings ==
  { [err |-> TRUE, names |-> {}], [err |-> FALSE, names |-> {}],
    [err |-> FALSE, names |-> {"web"}] }

\* RemoveFile fails for no file or for one of the files on the device.
RunGC(first, failing, listing) ==
  /\ gc' = runGC(gc, first, failing, listing)
  /\ UNCHANGED <<provVars, ipamVars, supVars, auxVars, regVars, infra>>

GCNext ==
  \E first \in FirstCandidates(gc.images, keepNOf(gc.cfg)),
     failing \in {{}} \cup { {f} : f \in gc.files },
     listing \in Listings : RunGC(first, failing, listing)

\* ------------------------------------------------------------------------
\* provider: infrastructure watchdog
\* ------------------------------------------------------------------------
infraHealthThreshold == 3
infraRestartCooldown == 60
InfraStopWait == 3

\* p.infraFailures and infraLastRestart by container name; the outcomes of
\* the latest checks and restarts of the container (at most four, oldest
\* first); when the restart before the last one ended; what the last check
\* did.
NoInfraCheck ==
  [name |-> "", healthy |-> FALSE, attempted |-> FALSE, restarted |-> FALSE,
   skipped |-> FALSE, wasRunning |-> FALSE, at |-> ZeroTime, log |-> <<>>]

NoInfra ==
  [failures |-> <<>>, lastRestart |-> <<>>, recent |-> <<>>,
   ended |-> <<>>, ret |-> NoInfraCheck]

RegistryContainer == "registry.gt.lo"

\* getInfraContainers: the registry, if it has a local address
getInfraContainers == <<RegistryContainer>>

\* The last four of a history
Latest(h) == IF Len(h) > 4 THEN SubSeq(h, Len(h) - 3, Len(h)) ELSE h

mapGet(m, k, default) == IF k \in DOMAIN m THEN m[k] ELSE default

\* restartInfraContainer: o says whether GetContainer, StopContainer and
\* StartContainer succeed.
restartInfraContainer(cts, t, name, o) ==
  IF ~o.getOk \/ name \notin DOMAIN cts
  THEN [cts |-> cts, t |-> t, err |-> TRUE, log |-> <<>>]
  ELSE IF cts[name] = "running" /\ ~o.stopOk
  THEN [cts |-> cts, t |-> t, err |-> TRUE, log |-> << <<"StopContainer", name>> >>]
  ELSE LET running == cts[name] = "running"
           stopped == IF running THEN rosStopContainer(cts, name) ELSE cts
           t1 == IF running THEN t + InfraStopWait ELSE t
           log1 == IF running THEN << <<"StopContainer", name>> >> ELSE <<>>
       IN IF ~o.startOk
          THEN [cts |-> stopped, t |-> t1, err |-> TRUE,
                log |-> Append(log1, <<"StartContainer", name>>)]
          ELSE [cts |-> rosStartContainer(stopped, name), t |-> t1, err |-> FALSE,
                log |-> Append(log1, <<"StartContainer", name>>)]

\* The body of the loop of checkInfraHealth for one container; cooldown
\* says whether the restart cooldown is observed.
checkInfraContainer(st, name, healthy, o, cooldown) ==
  LET count == mapGet(st.infra.failures, name, 0) + 1
      counted == [st.infra EXCEPT
                    !.failures = MapPut(@, name, count),
                    !.recent = Latest(Append(@, "failed")),
                    !.ret = [NoInfraCheck EXCEPT !.name = name, !.at = st.t]]
      inCooldown == /\ cooldown
                    /\ name \in DOMAIN st.infra.lastRestart
                    /\ st.t - st.infra.lastRestart[name] < infraRestartCooldown
      r == restartInfraContainer(st.cts, st.t, name, o)
  IN IF healthy
     THEN [st EXCEPT !.infra =
             [@ EXCEPT !.failures = MapPut(@, name, 0),
                       !.recent = Latest(Append(@, "healthy")),
                       !.ret = [NoInfraCheck EXCEPT !.name = name, !.healthy = TRUE,
                                                    !.at = st.t]]]
     ELSE IF count < infraHealthThreshold THEN [st EXCEPT !.infra = counted]
     ELSE IF inCooldown THEN [st EXCEPT !.infra = [counted EXCEPT !.ret.skipped = TRUE]]
     ELSE IF r.err
     THEN [cts |-> r.cts, t |-> r.t,
           infra |-> [counted EXCEPT
                        !.ret.attempted = TRUE, !.ret.log = r.log,
                        !.ret.wasRunning = mapGet(st.cts, name, "") = "running"]]
     ELSE [cts |-> r.cts, t |-> r.t,
           infra |-> [counted EXCEPT
                        !.failures = MapPut(@, name, 0),
                        !.lastRestart = MapPut(@, name, r.t),
                        !.recent = Latest(Append(@, "restarted")),
                        !.ended = st.infra.lastRestart,
                        !.ret.attempted = TRUE, !.ret.restarted = TRUE,
                        !.ret.log = r.log,
                        !.ret.wasRunning = mapGet(st.cts, name, "") = "running"]]

RECURSIVE checkInfraLoop(_, _, _, _, _)
checkInfraLoop(st, containers, healthy, o, cooldown) ==
  IF containers = <<>> THEN st
  ELSE checkInfraLoop(checkInfraContainer(st, Head(containers),
                                          healthy[Head(containers)], o, cooldown),
                      Tail(containers), healthy, o, cooldown)

\* Variant: the restart cooldown is not observed.
checkInfraHealth_NoCooldown(st, healthy, o) ==
  checkInfraLoop(st, getInfraContainers, healthy, o, FALSE)

checkInfraHealth(st, healthy, o) ==
  checkInfraLoop(st, getInfraContainers, healthy, o, TRUE)

InfraOutcomes == [getOk : BOOLEAN, stopOk : BOOLEAN, startOk : BOOLEAN]
MaxInfraFailures == 4
MaxInfraElapsed == 80
InfraIntervals == {10, 50}

\* One pass of the reconcile loop over the infrastructure containers.
CheckInfraHealth(healthy, o) ==
  /\ \A name \in DOMAIN infra.failures : infra.failures[name] < MaxInfraFailures
  /\ \E r \in {checkInfraHealth([infra |-> infra, cts |-> rosContainers, t |-> now],
                                  healthy, o)} :
       /\ r.t <= StartTime + MaxInfraElapsed
       /\ infra' = r.infra
       /\ rosContainers' = r.cts
       /\ now' = r.t
  /\ UNCHANGED <<supFrame, units, sret, ipamVars, auxVars, regVars, gc>>

\* Time passes between two passes of the reconcile loop.
InfraTick(d) ==
  /\ now + d <= StartTime + MaxInfraElapsed
  /\ now' = now + d
  /\ UNCHANGED <<supFrame, units, rosContainers, sret, ipamVars, auxVars, regVars, opsVars>>

InfraNext ==
  \/ \E healthy \in [{RegistryContainer} -> BOOLEAN], o \in InfraOutcomes :
       CheckInfraHealth(healthy, o)
  \/ \E d \in InfraIntervals : InfraTick(d)
  \/ RuntimeContainerExits(RegistryContainer)

\* Pods are created and replaced through UpdatePod.
UpdateNext ==
  \/ \E p \in PodUniverse : \E g \in DeleteFailures(p) :
       \E f \in CreateFailures(p) : UpdatePod(p, g, f)
  \/ \E n \in ContainerNames : RuntimeRemoveContainer(n)

Init ==
  /\ NewAllocator
  /\ mgr = NewManager(DeviceVeths, TRUE)
  /\ images = <<>>
  /\ pods = <<>>
  /\ units = <<>>
  /\ rosVeths = DeviceVeths
  /\ rosContainers = <<>>
  /\ seeded = {}
  /\ pret = PRes("Start")
  /\ supCfg = [MaxRestarts |-> 0, RestartCooldown |-> 0]
  /\ now = StartTime
  /\ sret = SRes("Start")
  /\ inProgress = NoCall
  /\ podStatus = NoStatus
  /\ tasks = NoTasks
  /\ files = NewBlobStore
  /\ rret = RRes("Start")
  /\ hist = NoHistory
  /\ gc = NewStorageManager
  /\ infra = NoInfra

\* The registry is started with or without pull-through.
InitReg ==
  /\ NewAllocator
  /\ mgr = NewManager(DeviceVeths, TRUE)
  /\ images = <<>>
  /\ pods = <<>>
  /\ units = <<>>
  /\ rosVeths = DeviceVeths
  /\ rosContainers = <<>>
  /\ seeded = {}
  /\ pret = PRes("Start")
  /\ supCfg = [MaxRestarts |-> 0, RestartCooldown |-> 0]
  /\ now = StartTime
  /\ sret = SRes("Start")
  /\ inProgress = NoCall
  /\ podStatus = NoStatus
  /\ tasks = NoTasks
  /\ files \in { NewRegistry(p) : p \in BOOLEAN }
  /\ rret = RRes("Start")
  /\ hist = NoHistory
  /\ gc = NewStorageManager
  /\ infra = NoInfra

\* The storage manager holds cached images when the GC runs.
InitGC ==
  /\ NewAllocator
  /\ mgr = NewManager(DeviceVeths, TRUE)
  /\ images = <<>>
  /\ pods = <<>>
  /\ units = <<>>
  /\ rosVeths = DeviceVeths
  /\ rosContainers = <<>>
  /\ seeded = {}
  /\ pret = PRes("Start")
  /\ supCfg = [MaxRestarts |-> 0, RestartCooldown |-> 0]
  /\ now = StartTime
  /\ sret = SRes("Start")
  /\ inProgress = NoCall
  /\ podStatus = NoStatus
  /\ tasks = NoTasks
  /\ files = NewBlobStore
  /\ rret = RRes("Start")
  /\ hist = NoHistory
  /\ gc \in { StorageManager(imgs, Volumes, cfg) : imgs \in ImageCaches, cfg \in GCConfigs }
  /\ infra = NoInfra

\* The registry container runs when the provider starts.
InitInfra ==
  /\ NewAllocator
  /\ mgr = NewManager(DeviceVeths, TRUE)
  /\ images = <<>>
  /\ pods = <<>>
  /\ units = <<>>
  /\ rosVeths = DeviceVeths
  /\ rosContainers = (RegistryContainer :> "running")
  /\ seeded = {}
  /\ pret = PRes("Start")
  /\ supCfg = [MaxRestarts |-> 0, RestartCooldown |-> 0]
  /\ now = StartTime
  /\ sret = SRes("Start")
  /\ inProgress = NoCall
  /\ podStatus = NoStatus
  /\ tasks = NoTasks
  /\ files = NewBlobStore
  /\ rret = RRes("Start")
  /\ hist = NoHistory
  /\ gc = NewStorageManager
  /\ infra = NoInfra

\* The states GetPodStatus is called in.
InitStatus ==
  /\ NewAllocator
  /\ mgr = NewManager(DeviceVeths, TRUE)
  /\ images = <<>>
  /\ \E ps \in Trackers : pods = TrackerOf(ps)
  /\ units = <<>>
  /\ rosVeths = DeviceVeths
  /\ \E C \in SUBSET ContainerNames : rosContainers \in [C -> RuntimeStatuses]
  /\ seeded = {}
  /\ pret = PRes("Start")
  /\ supCfg = [MaxRestarts |-> 0, RestartCooldown |-> 0]
  /\ now = StartTime
  /\ sret = SRes("Start")
  /\ inProgress = NoCall
  /\ podStatus = NoStatus
  /\ tasks = NoTasks
  /\ files = NewBlobStore
  /\ rret = RRes("Start")
  /\ hist = NoHistory
  /\ gc = NewStorageManager
  /\ infra = NoInfra

\* The supervisor is built with its configuration; the containers of the
\* units exist on the device and run.
InitSup ==
  /\ NewAllocator
  /\ mgr = NewManager(DeviceVeths, TRUE)
  /\ images = <<>>
  /\ pods = <<>>
  /\ units = <<>>
  /\ rosVeths = DeviceVeths
  /\ rosContainers = [n \in SupNames |-> "running"]
  /\ seeded = {}
  /\ pret = PRes("Start")
  /\ supCfg \in SupConfigs
  /\ now = StartTime
  /\ sret = SRes("Start")
  /\ inProgress = NoCall
  /\ podStatus = NoStatus
  /\ tasks = NoTasks
  /\ files = NewBlobStore
  /\ rret = RRes("Start")
  /\ hist = NoHistory
  /\ gc = NewStorageManager
  /\ infra = NoInfra

\* A unit is registered when the watchdog starts.
InitSupLive ==
  /\ NewAllocator
  /\ mgr = NewManager(DeviceVeths, TRUE)
  /\ images = <<>>
  /\ pods = <<>>
  /\ units \in { Register(<<>>, u.Name, u) : u \in LiveUniverse }
  /\ rosVeths = DeviceVeths
  /\ rosContainers = [n \in SupNames |-> "running"]
  /\ seeded = {}
  /\ pret = PRes("Start")
  /\ supCfg \in SupConfigs
  /\ now = StartTime
  /\ sret = SRes("Start")
  /\ inProgress = NoCall
  /\ podStatus = NoStatus
  /\ tasks = NoTasks
  /\ files = NewBlobStore
  /\ rret = RRes("Start")
  /\ hist = NoHistory
  /\ gc = NewStorageManager
  /\ infra = NoInfra

\* The containers are on the device, stopped, when the boot begins.
InitExec ==
  /\ NewAllocator
  /\ mgr = NewManager(DeviceVeths, TRUE)
  /\ images = <<>>
  /\ pods = <<>>
  /\ units = <<>>
  /\ rosVeths = DeviceVeths
  /\ rosContainers = [n \in BootNames |-> "stopped"]
  /\ seeded = {}
  /\ pret = PRes("Start")
  /\ supCfg = [MaxRestarts |-> 0, RestartCooldown |-> 0]
  /\ now = StartTime
  /\ sret = SRes("Start")
  /\ inProgress = NoCall
  /\ podStatus = NoStatus
  /\ tasks = NoTasks
  /\ files = NewBlobStore
  /\ rret = RRes("Start")
  /\ hist = NoHistory
  /\ gc = NewStorageManager
  /\ infra = NoInfra

Next == IpamNext
Spec == Init /\ [][Next]_vars

SpecNet == Init /\ [][NetNext]_vars
SpecProv == Init /\ [][ProvNext]_vars
SpecUpdate == Init /\ [][UpdateNext]_vars
SpecFlight == Init /\ [][FlightNext]_vars
SpecStatus == InitStatus /\ [][StatusNext]_vars
SpecBoot == Init /\ [][BootNext]_vars
SpecManifests == Init /\ [][ManifestStoreNext]_vars
SpecReg == InitReg /\ [][RegNext]_vars
SpecGC == InitGC /\ [][GCNext]_vars
SpecInfra == InitInfra /\ [][InfraNext]_vars
\* The ticker of RunWatchdog keeps firing.
SpecSupLive == InitSupLive /\ [][LiveNext]_vars /\ WF_vars(LiveNext)
SpecExec == InitExec /\ [][ExecNext]_vars
SpecV2 == InitReg /\ [][V2Next]_vars
SpecTasks == Init /\ [][TaskNext]_vars
SpecNetRun == Init /\ [][NetRunNext]_vars
SpecFrame == Init /\ [][ManifestFrameNext]_vars
SpecCatalog == Init /\ [][CatalogNext]_vars
SpecBlobs == Init /\ [][BlobStoreNext]_vars
SpecSup == InitSup /\ [][SupNext]_vars

\* C8: after a restart that re-seeds the allocator from the veth list, every
\* veth with an address inside the pool is mapped to that address, and no
\* later allocation returns the address of a seeded veth.
C8_RestartKeepsAllocations ==
  /\ (pret.op = "NewManager" /\ pret.synced) =>
       \A v \in DOMAIN rosVeths :
         (rosVeths[v] # NoIP /\ Contains(mgr.subnet, rosVeths[v])) =>
           (v \in DOMAIN mgr.allocated /\ mgr.allocated[v] = rosVeths[v])
  /\ (pret.op = "AllocateInterface" /\ pret.err = "") =>
       /\ pret.prevIP # pret.ip
       /\ \A w \in seeded : mgr.allocated[w] # pret.ip

\* C8 witness: an allocation succeeded while a veth seeded by the restart
\* was still on the device and still allocated.
C8_Witness ==
  /\ pret.op = "AllocateInterface" /\ pret.err = ""
  /\ \E w \in seeded : w \in DOMAIN rosVeths /\ rosVeths[w] = mgr.allocated[w]

Occurrences(seq, x) == Cardinality({ i \in DOMAIN seq : seq[i] = x })

\* C9: after CreatePod(p) succeeds, GetPod(p.namespace, p.name) returns a pod
\* equal to p and GetPods contains it exactly once, also when the pod was
\* already tracked.
C9_CreatedPodIsTracked ==
  (pret.op = "CreatePod" /\ pret.err = "") =>
     /\ GetPod(pret.pod.Namespace, pret.pod.Name) = [found |-> TRUE, pod |-> pret.pod]
     /\ Occurrences(GetPods, pret.pod) = 1

\* C9 witness: CreatePod succeeded for a (namespace, name) that was tracked
\* already.
C9_Witness == pret.op = "CreatePod" /\ pret.err = "" /\ pret.tracked

\* C10: after DeletePod(p), GetPod(p) is NotFound, every veth of p is
\* released from IPAM and every Unit of p is unregistered, also when a
\* container of p is no longer found on the runtime.
C10_DeleteReleasesAll ==
  (pret.op = "DeletePod" /\ pret.tracked) =>
     /\ ~GetPod(pret.pod.Namespace, pret.pod.Name).found
     /\ \A i \in 1 .. Len(pret.pod.Containers) :
          /\ VethName(pret.pod, i - 1) \notin DOMAIN mgr.allocated
          /\ sanitizeName(pret.pod, pret.pod.Containers[i].Name) \notin DOMAIN units

\* ------------------------------------------------------------------------
\* Properties of the allocator
\* ------------------------------------------------------------------------
AddrAt(pool, o) == (pool.Subnet.base + o) % Mod
OffsetOf(pool, ip) == (ip + Mod - pool.Subnet.base) % Mod

\* Host offsets Allocate may hand out: 2 up to the last usable host
\* (broadcast - 1).
UsableOffsets(pool) == 2 .. (SizeOf(pool.Subnet) - 2)

IsFree(pool, o) == AddrAt(pool, o) # pool.Gateway /\ ~IsTaken(pool, AddrAt(pool, o))
FreeOffsets(pool) == { o \in UsableOffsets(pool) : IsFree(pool, o) }

Injective(A) == \A k1, k2 \in DOMAIN A : k1 # k2 => A[k1] # A[k2]

AllocOk == ret.op = "Allocate" /\ ret.err = ""

\* C1: in a pool that has only seen Allocate calls with pairwise distinct
\* keys, the addresses returned are pairwise distinct, lie inside the pool's
\* CIDR and differ from the gateway, for every pool size.
C1_DistinctInCidrNotGateway ==
  \A n \in DOMAIN pools :
    n \in allocOnly =>
      LET A == pools[n].Allocated
      IN /\ Injective(A)
         /\ \A k \in DOMAIN A :
              Contains(pools[n].Subnet, A[k]) /\ A[k] # pools[n].Gateway
         /\ (AllocOk /\ ret.pool = n) => A[ret.key] = ret.ip

\* C2: Allocate never returns an address that another key of the pool holds
\* (through Allocate, AllocateStatic or Record) and has not released.
C2_HeldNotReissued ==
  AllocOk =>
    \A k \in DOMAIN ret.pre.pool.Allocated :
      k # ret.key => ret.pre.pool.Allocated[k] # ret.ip

\* C2 witness: Release(P,k) freed an address and the following Allocate for
\* another key returned that same address.
C2_Witness == AllocOk /\ ret.freed = ret.ip /\ ret.freedKey # ret.key

\* C3: after any sequence of operations every allocated address lies inside
\* the CIDR, no two keys share an address and no key maps to the gateway.
C3_PoolInvariants ==
  \A n \in DOMAIN pools :
    LET A == pools[n].Allocated
    IN /\ Injective(A)
       /\ \A k \in DOMAIN A :
            Contains(pools[n].Subnet, A[k]) /\ A[k] # pools[n].Gateway

\* C4: Allocate fails with Exhausted exactly when every host offset from 2
\* to the last usable host is the gateway or allocated, and after a Release
\* that frees the only such address the next Allocate returns it.
C4_ExhaustedIffNoFreeOffset ==
  (ret.op = "Allocate" /\ ret.pre.known) =>
     /\ (ret.err = "Exhausted") <=> (FreeOffsets(ret.pre.pool) = {})
     /\ ( /\ ret.freed # NoIP
          /\ FreeOffsets(ret.pre.pool) = {OffsetOf(ret.pre.pool, ret.freed)} )
        => (ret.err = "" /\ ret.ip = ret.freed)

\* C5: AllocateStatic fails and leaves the allocation map and the cursor
\* unchanged when the pool is unknown, the address is outside the CIDR, is
\* the gateway or is allocated to some key; otherwise it succeeds and the
\* key maps to the address.
C5_StaticRejects ==
  ret.op = "AllocateStatic" =>
    IF ~ret.pre.known
    THEN ret.err # "" /\ ret.pool \notin DOMAIN pools
    ELSE LET p == ret.pre.pool
         IN IF \/ ~Contains(p.Subnet, ret.ip)
               \/ ret.ip = p.Gateway
               \/ \E k \in DOMAIN p.Allocated : p.Allocated[k] = ret.ip
            THEN ret.err # "" /\ pools[ret.pool] = p
            ELSE /\ ret.err = ""
                 /\ ret.key \in DOMAIN pools[ret.pool].Allocated
                 /\ pools[ret.pool].Allocated[ret.key] = ret.ip

\* C5 witness: a static request for an address another key holds was
\* rejected.
C5_Witness ==
  /\ ret.op = "AllocateStatic" /\ ret.err = "AlreadyTaken"
  /\ \E k \in DOMAIN pools[ret.pool].Allocated :
       k # ret.key /\ pools[ret.pool].Allocated[k] = ret.ip

\* C6: AllocateStatic(P,k,ip) when k already holds ip is reported as success
\* and leaves the pool unchanged.
C6_StaticIdempotent ==
  ( /\ ret.op = "AllocateStatic" /\ ret.pre.known
    /\ ret.key \in DOMAIN ret.pre.pool.Allocated
    /\ ret.pre.pool.Allocated[ret.key] = ret.ip )
  => (ret.err = "" /\ pools[ret.pool] = ret.pre.pool)

SetMin(S) == CHOOSE x \in S : \A y \in S : x <= y

\* C7 (as claimed): every successful Allocate returns the lowest host offset
\* that is not taken and is not the gateway.
C7_LowestFree ==
  (AllocOk /\ FreeOffsets(ret.pre.pool) # {}) =>
     ret.ip = AddrAt(ret.pre.pool, SetMin(FreeOffsets(ret.pre.pool)))

\* C7 (amended): every successful Allocate returns the first offset at or
\* after the pool's cursor, continuing from the last host offset back to 2,
\* that is not taken and is not the gateway.
C7_NextFreeFromCursor ==
  AllocOk =>
    LET p == ret.pre.pool
        c == p.NextIP
        o == OffsetOf(p, ret.ip)
    IN /\ IsFree(p, o)
       /\ IF o >= c
          THEN \A x \in c .. (o - 1) : ~IsFree(p, x)
          ELSE /\ o >= 2
               /\ \A x \in (c .. (SizeOf(p.Subnet) - 2)) \cup (2 .. (o - 1)) : ~IsFree(p, x)

\* C7 witness: an Allocate returned an address above a free lower offset.
C7_Witness ==
  /\ AllocOk
  /\ \E x \in FreeOffsets(ret.pre.pool) : x < OffsetOf(ret.pre.pool, ret.ip)

\* The calls of the delete phase and of the create phase of a handler.
DeleteOps == {"StopContainer", "RemoveContainer", "ReleaseInterface", "Unregister"}
CreateOps == {"EnsureImage", "AllocateInterface", "CreateContainer",
              "StartContainer", "Register"}

Issued(log, ops) == { i \in 1 .. Len(log) : log[i][1] \in ops }

C12_InFlightWhileInProgress ==
  /\ inProgress.op # "none" => podKey(inProgress.pod) \in inFlight
  /\ pret.op = "reconcile" => pret.log = <<>>

\* The pod GetPodStatus answered about, and the device name of its
\* container i.
AskedPod == pods[podStatus.namespace \o <<"/">> \o podStatus.name]
AskedName(i) == sanitizeName(AskedPod, AskedPod.Containers[i].Name)

\* C13: GetPodStatus reports a running container as Ready and Running, a
\* stopped or error container as Terminated with the status as reason, any
\* other status as Waiting with the status as reason, an absent container
\* as Waiting with reason ContainerNotFound; the phase is Running iff every
\* container is reported Running and Pending otherwise, the Ready
\* condition is true iff all are running, and PodScheduled is true.
C13_StatusMapping ==
  podStatus.err = "" =>
    LET cs == podStatus.ContainerStatuses
        all == \A i \in 1 .. Len(cs) : cs[i].State = "Running"
    IN /\ Len(cs) = Len(AskedPod.Containers)
       /\ \A i \in 1 .. Len(cs) :
            IF AskedName(i) \notin DOMAIN rosContainers
            THEN cs[i].State = "Waiting" /\ cs[i].Reason = "ContainerNotFound"
                 /\ ~cs[i].Ready
            ELSE LET status == rosContainers[AskedName(i)]
                 IN /\ status = "running" =>
                         cs[i].Ready /\ cs[i].State = "Running"
                    /\ status \in {"stopped", "error"} =>
                         cs[i].State = "Terminated" /\ cs[i].Reason = status
                         /\ ~cs[i].Ready
                    /\ status \notin {"running", "stopped", "error"} =>
                         cs[i].State = "Waiting" /\ cs[i].Reason = status
                         /\ ~cs[i].Ready
       /\ podStatus.Phase = (IF all THEN "Running" ELSE "Pending")
       /\ podStatus.Conditions.Ready = (IF all THEN "True" ELSE "False")
       /\ podStatus.Conditions.PodScheduled = "True"

\* C13 witness: a pod with two containers, one in error and one in another
\* status than running, stopped or error, was reported Pending.
C13_Witness ==
  /\ podStatus.err = "" /\ podStatus.Phase = "Pending"
  /\ Len(podStatus.ContainerStatuses) = 2
  /\ podStatus.ContainerStatuses[1].State = "Terminated"
  /\ podStatus.ContainerStatuses[1].Reason = "error"
  /\ podStatus.ContainerStatuses[2].State = "Waiting"
  /\ podStatus.ContainerStatuses[2].Reason = "extracting"

\* The integer a string of decimal digits denotes.
DigitValue(d) == CHOOSE v \in 0 .. 9 : <<"0","1","2","3","4","5","6","7","8","9">>[v + 1] = d

RECURSIVE Atoi(_)
Atoi(s) ==
  IF s = <<>> THEN 0 ELSE Atoi(SubSeq(s, 1, Len(s) - 1)) * 10 + DigitValue(s[Len(s)])

\* The boot priority the annotation asks for, else ten times the index.
AnnotatedPriority(pod, i) ==
  IF AnnBootPriority \in DOMAIN pod.Annotations
  THEN Atoi(pod.Annotations[AnnBootPriority])
  ELSE i * 10

\* The Register calls a handler made for the unit called name.
Registrations(log, name) ==
  { j \in Issued(log, {"Register"}) : log[j][2] = name }

\* C14: a CreatePod that returns nil has registered a Unit for container i
\* exactly when the pod's restart policy is Always, with the boot priority
\* of annotation mikrotik.io/boot-priority when the pod carries it and
\* i * 10 otherwise.
C14_UnitRegisteredWithPriority ==
  (pret.op = "CreatePod" /\ pret.err = "") =>
    \A i \in 0 .. (Len(pret.pod.Containers) - 1) :
      LET name == sanitizeName(pret.pod, pret.pod.Containers[i + 1].Name)
          regs == Registrations(pret.log, name)
      IN /\ (regs # {}) <=> (pret.pod.RestartPolicy = "Always")
         /\ \A j \in regs : pret.log[j][3] = AnnotatedPriority(pret.pod, i)

\* Position of unit n in a boot sequence (0 when it is not in it).
PosIn(seq, n) ==
  IF \E i \in 1 .. Len(seq) : seq[i] = n
  THEN CHOOSE i \in 1 .. Len(seq) : seq[i] = n ELSE 0

\* The registered units u names in its dependency list.
RegisteredDeps(us, u) ==
  { us[u].DependsOn[i] : i \in 1 .. Len(us[u].DependsOn) } \cap DOMAIN us

\* The units reached from u in 1 .. n dependency steps.
RECURSIVE ReachedIn(_, _, _)
ReachedIn(us, u, n) ==
  IF n = 0 THEN {}
  ELSE RegisteredDeps(us, u) \cup
       UNION { ReachedIn(us, d, n - 1) : d \in RegisteredDeps(us, u) }

Acyclic(us) ==
  \A u \in DOMAIN us : u \notin ReachedIn(us, u, Cardinality(DOMAIN us))

\* Every registered unit is in the sequence exactly once.
ListsAllOnce(seq, us) ==
  /\ Len(seq) = Cardinality(DOMAIN us)
  /\ \A u \in DOMAIN us : \E i \in 1 .. Len(seq) : seq[i] = u

DepsFirst(seq, us) ==
  \A u \in DOMAIN us : \A d \in RegisteredDeps(us, u) :
    PosIn(seq, d) < PosIn(seq, u)

\* C15 as stated: BootSequence lists every registered dependency of every
\* registered unit before the unit.
C15_TopologicalOrder ==
  sret.op = "BootSequence" =>
    /\ ListsAllOnce(sret.seq, sret.pre)
    /\ DepsFirst(sret.seq, sret.pre)

\* C15 amended: when no registered unit depends on itself, directly or
\* through other registered units, BootSequence lists every registered
\* dependency of every registered unit before the unit, whatever the
\* priorities.
C15_TopologicalWhenAcyclic ==
  sret.op = "BootSequence" =>
    /\ ListsAllOnce(sret.seq, sret.pre)
    /\ Acyclic(sret.pre) => DepsFirst(sret.seq, sret.pre)

\* C15 witness: database{20} and app{10, depends on database} give
\* [database, app].
C15_Witness ==
  /\ sret.op = "BootSequence" /\ Acyclic(sret.pre)
  /\ sret.seq = <<UDatabase, UApp>>
  /\ sret.pre[UDatabase].Priority > sret.pre[UApp].Priority
  /\ UDatabase \in RegisteredDeps(sret.pre, UApp)

\* Neither unit reaches the other through dependencies.
Unrelated(us, a, b) ==
  /\ a \notin ReachedIn(us, b, Cardinality(DOMAIN us))
  /\ b \notin ReachedIn(us, a, Cardinality(DOMAIN us))

CallsOn(log, id) == SelectSeq(log, LAMBDA e : e[2] = id)

\* C17: a unit with policy Always or OnFailure that is handed to the
\* unhealthy handler with a restart count of at least max-restarts (5 when
\* not configured) has status failed afterwards; no stop and no start was
\* issued for it, and its restart count and last-restart time are as
\* before.
C17_BudgetExhaustedFails ==
  sret.op = "checkAll" =>
    \A n \in DOMAIN sret.handled :
      (/\ sret.pre[n].RestartPolicy \in {"Always", "OnFailure"}
       /\ sret.pre[n].RestartCount >= maxRestartsOf(supCfg)) =>
        /\ units[n].Status = "failed"
        /\ CallsOn(sret.log, sret.pre[n].ContainerID) = <<>>
        /\ units[n].RestartCount = sret.pre[n].RestartCount
        /\ units[n].LastRestartAt = sret.pre[n].LastRestartAt

\* C17 witness: with max-restarts not configured, a unit restarted five
\* times turned unhealthy and was marked failed.
C17_Witness ==
  /\ sret.op = "checkAll" /\ supCfg.MaxRestarts = 0
  /\ \E n \in DOMAIN sret.handled :
       /\ sret.pre[n].RestartCount = DefaultMaxRestarts
       /\ units[n].Status = "failed"

\* C18: a unit with restart policy Never is never restarted: no watchdog
\* cycle changes its restart count or last-restart time or issues a stop
\* or start for it, and a cycle in which it turns unhealthy leaves its
\* status stopped.
C18_NeverIsNotRestarted ==
  /\ \A n \in DOMAIN units :
       units[n].RestartPolicy = "Never" =>
         units[n].RestartCount = 0 /\ units[n].LastRestartAt = ZeroTime
  /\ sret.op = "checkAll" =>
       \A n \in DOMAIN sret.pre :
         sret.pre[n].RestartPolicy = "Never" =>
           /\ CallsOn(sret.log, sret.pre[n].ContainerID) = <<>>
           /\ units[n].RestartCount = sret.pre[n].RestartCount
           /\ n \in DOMAIN sret.handled => units[n].Status = "stopped"

\* C18 witness: in one cycle a Never unit turned unhealthy and was marked
\* stopped while another unit was restarted.
C18_Witness ==
  /\ sret.op = "checkAll" /\ sret.log # <<>>
  /\ \E n \in DOMAIN sret.handled :
       sret.pre[n].RestartPolicy = "Never" /\ units[n].Status = "stopped"

\* The status moves of the claim, a unit that turns unhealthy passing
\* through unhealthy within the cycle that handles it, with the moves of a
\* Never unit to stopped and back.
StatusMoves ==
  { <<"running", "restarting">>, <<"restarting", "running">>,
    <<"running", "failed">>, <<"restarting", "failed">>,
    <<"running", "stopped">>, <<"stopped", "running">> }

\* C19: a watchdog cycle moves the status of a unit only along
\* running -> (unhealthy) -> restarting -> running or to failed, and never
\* changes the status of a unit that is failed.
C19_FailedIsTerminal ==
  [][sret'.op = "checkAll" =>
       \A n \in DOMAIN units \cap DOMAIN units' :
         \/ units'[n].Status = units[n].Status
         \/ /\ units[n].Status # "failed"
            /\ <<units[n].Status, units'[n].Status>> \in StatusMoves]_vars

\* C20: a unit with policy Always, restart count below max-restarts and no
\* active cooldown that turns from healthy to unhealthy gets status
\* restarting, a stop and then a start of its container, a restart count
\* one higher and a fresh last-restart time; a unit that is restarting and
\* is probed healthy in a later cycle gets status running.
C20_RestartThenRecover ==
  sret.op = "checkAll" =>
    /\ \A n \in DOMAIN sret.handled :
         (/\ sret.pre[n].RestartPolicy = "Always"
          /\ sret.pre[n].RestartCount < maxRestartsOf(supCfg)
          /\ sret.handled[n] - sret.pre[n].LastRestartAt >= cooldownOf(supCfg)) =>
           /\ units[n].Status = "restarting"
           /\ CallsOn(sret.log, sret.pre[n].ContainerID) =
                << <<"StopContainer", sret.pre[n].ContainerID>>,
                   <<"StartContainer", sret.pre[n].ContainerID>> >>
           /\ units[n].RestartCount = sret.pre[n].RestartCount + 1
           /\ units[n].LastRestartAt > sret.pre[n].LastRestartAt
           /\ units[n].LastRestartAt >= sret.handled[n]
           /\ units[n].LastRestartAt <= now
    /\ \A n \in DOMAIN sret.pre :
         (/\ sret.pre[n].Status = "restarting"
          /\ sret.pre[n].HealthCheck # NoHealthCheck
          /\ units[n].Healthy) =>
           n \in sret.recovered /\ units[n].Status = "running"

\* C20 witness: a unit restarted for the first time (count 0 to 1) was
\* probed healthy in a later cycle and is running again.
C20_Witness ==
  /\ sret.op = "checkAll"
  /\ \E n \in sret.recovered :
       /\ sret.pre[n].Status = "restarting"
       /\ sret.pre[n].RestartPolicy = "Always"
       /\ sret.pre[n].RestartCount = 1
       /\ sret.pre[n].LastRestartAt > ZeroTime
       /\ units[n].Status = "running"

\* ------------------------------------------------------------------------
\* C21: a GetManifest(repo, ref) that follows a successful
\* PutManifest(repo, ref, content-type, bytes) returns exactly those bytes
\* and that content type, also when the manifest was overwritten with a
\* different or an empty content type.
GotManifest ==
  /\ rret.op = "GetManifest"
  /\ <<rret.repo, rret.ref>> \in DOMAIN hist.manifestPut

C21_GetReturnsWhatWasPut ==
  GotManifest =>
    /\ ~rret.err
    /\ rret.data = hist.manifestPut[<<rret.repo, rret.ref>>].data
    /\ rret.contentType = hist.manifestPut[<<rret.repo, rret.ref>>].contentType

\* ------------------------------------------------------------------------
\* C22: after any sequence of PutManifest calls, ListRepositories lists a
\* repository if and only if at least one manifest was stored for it, and
\* the list is sorted and free of duplicates, nested names included.
StoredRepos == { k[1] : k \in DOMAIN hist.manifestPut }

C22_CatalogListsStoredRepos ==
  rret.op = "ListRepositories" =>
    /\ { rret.repos[i] : i \in 1 .. Len(rret.repos) } = StoredRepos
    /\ \A i, j \in 1 .. Len(rret.repos) :
         i < j => StrLess(rret.repos[i], rret.repos[j])

\* ------------------------------------------------------------------------
\* C26: blobs are immutable once written: after PutBlob(d, b) succeeded,
\* every later GetBlob(d) returns exactly b and HasBlob(d) returns
\* (true, len(b)), whatever PutBlob calls for d follow.
C26_BlobsImmutable ==
  rret.ref \in DOMAIN hist.blobPut =>
    /\ rret.op = "GetBlob" =>
         ~rret.err /\ rret.data = hist.blobPut[rret.ref]
    /\ rret.op = "HasBlob" =>
         rret.exists /\ rret.size = Len(hist.blobPut[rret.ref])

\* ------------------------------------------------------------------------
\* C23: for every stored manifest and every stored blob, the HEAD response
\* carries the same Content-Type, Content-Length and Docker-Content-Digest
\* headers as the GET response for the same resource.
\* The GET response for the resource of the last request, from the store
\* as that request left it.
GetResponse ==
  IF rret.op = "handleManifest"
  THEN handleManifest(files, "GET", rret.repo, rret.ref, "", NoReader, NoUpstreams).resp
  ELSE handleBlob(files, "GET", rret.ref, NoUpstreams).resp

SameHeader(h, g, name) ==
  /\ (name \in DOMAIN h) = (name \in DOMAIN g)
  /\ name \in DOMAIN h => h[name] = g[name]

\* The length a response announces: the Content-Length the handler set,
\* or else the length of the body it wrote, which the server fills in.
AnnouncedLength(headers, body) ==
  IF "Content-Length" \in DOMAIN headers THEN headers["Content-Length"]
  ELSE ToString(Len(body))

HeadOfStored ==
  /\ rret.op \in {"handleManifest", "handleBlob"}
  /\ rret.method = "HEAD"
  /\ rret.status = 200

C23_HeadHeadersMatchGet ==
  HeadOfStored =>
    /\ SameHeader(rret.headers, GetResponse.headers, "Content-Type")
    /\ SameHeader(rret.headers, GetResponse.headers, "Docker-Content-Digest")
    /\ AnnouncedLength(rret.headers, rret.data)
         = AnnouncedLength(GetResponse.headers, GetResponse.body)

\* ------------------------------------------------------------------------
\* C24: on a GET miss with pull-through enabled, the upstreams are tried in
\* configured order, an upstream that answers 4xx/5xx or fails at transport
\* level is skipped, and the client receives 404 exactly when every
\* upstream failed; a miss never yields a 5xx response.
PullThroughMiss ==
  /\ rret.op \in {"handleManifest", "handleBlob"}
  /\ rret.method = "GET"
  /\ rret.miss
  /\ files.pullThrough

\* The upstream did not deliver: no response, a 4xx/5xx status, or a body
\* that broke off.
UpstreamFailed(u) == u.err \/ u.status >= 400 \/ u.body.err

C24_MissTriesUpstreamsInOrder ==
  PullThroughMiss =>
    /\ rret.status = 404 <=> \A i \in 1 .. Len(rret.ups) : UpstreamFailed(rret.ups[i])
    /\ rret.status < 500
    /\ \A i \in 1 .. Len(rret.ups) :
         (~UpstreamFailed(rret.ups[i])
          /\ \A j \in 1 .. (i - 1) : UpstreamFailed(rret.ups[j])) => rret.tried = i

\* ------------------------------------------------------------------------
\* C25: after a pull-through GET of a manifest or blob has succeeded, the
\* content is stored under the requested reference, and every later GET or
\* HEAD of the same reference is answered from the store with identical
\* bytes without contacting any upstream.
RequestedResource ==
  IF rret.op = "handleManifest" THEN ManifestResource(rret.repo, rret.ref)
  ELSE BlobResource(rret.ref)

\* The bytes the store holds for a resource ("" with ok = FALSE if none)
StoredBytes(key) ==
  IF key[1] = "manifests"
  THEN LET got == GetManifest(files, key[2], key[3])
       IN [ok |-> ~got.err, data |-> got.data]
  ELSE LET got == GetBlob(files, key[3])
       IN [ok |-> ~got.err, data |-> got.data]

\* The last request was a GET or HEAD of a resource pulled through before.
LaterRead ==
  /\ rret.op \in {"handleManifest", "handleBlob"}
  /\ rret.method \in {"GET", "HEAD"}
  /\ RequestedResource \in DOMAIN rret.pre

C25_PulledIsServedFromStore ==
  /\ \A key \in DOMAIN hist.pulled :
       StoredBytes(key) = [ok |-> TRUE, data |-> hist.pulled[key]]
  /\ LaterRead =>
       /\ rret.status = 200
       /\ rret.tried = 0
       /\ rret.method = "GET" => rret.data = rret.pre[RequestedResource]
       /\ rret.method = "HEAD" =>
            rret.headers["Content-Length"]
              = ToString(Len(rret.pre[RequestedResource]))

\* A GET of a manifest that an earlier request pulled through, answered
\* from the store although the first upstream would answer.
C25_Witness ==
  /\ LaterRead
  /\ rret.op = "handleManifest"
  /\ rret.method = "GET"
  /\ rret.data = "manifest-1"
  /\ rret.ups[1].status = 200

\* ------------------------------------------------------------------------
\* C27: a non-dry-run image GC pass never removes a cache entry whose
\* in-use count is greater than 0, and among the entries with in-use count
\* 0 it keeps exactly the N most recently pulled (default 5) and removes
\* all older ones; in dry-run mode it removes nothing.
\* The N most recently pulled among the candidates of the pass
MostRecent(imgs, n) ==
  { c \in Candidates(imgs) :
      Cardinality({ d \in Candidates(imgs) : imgs[d].PulledAt > imgs[c].PulledAt }) < n }

C27_GCKeepsMostRecent ==
  gc.ret.ran =>
    /\ \A ref \in DOMAIN gc.ret.pre :
         gc.ret.pre[ref].InUse > 0 => ref \in DOMAIN gc.images
    /\ gc.cfg.GCDryRun => gc.images = gc.ret.pre /\ gc.ret.removed = {}
    /\ ~gc.cfg.GCDryRun =>
         Candidates(gc.ret.pre) \cap DOMAIN gc.images
           = MostRecent(gc.ret.pre, keepNOf(gc.cfg))

\* ------------------------------------------------------------------------
\* C28: the infrastructure watchdog restarts a container only after at
\* least three consecutive failed health checks with no healthy check in
\* between, never restarts the same container twice within the 60 s
\* cooldown, resets the failure counter to 0 on a healthy check or a
\* successful restart, and performs the restart as stop (if running)
\* followed by start.
ThreeFailed(h) ==
  /\ Len(h) >= 3
  /\ \A i \in (Len(h) - 2) .. Len(h) : h[i] = "failed"

C28_InfraRestartDiscipline ==
  LET c == infra.ret
  IN /\ (c.attempted /\ ~c.restarted) => ThreeFailed(infra.recent)
     /\ c.restarted =>
          /\ infra.recent[Len(infra.recent)] = "restarted"
          /\ ThreeFailed(SubSeq(infra.recent, 1, Len(infra.recent) - 1))
          /\ c.name \in DOMAIN infra.ended =>
               c.at - infra.ended[c.name] >= infraRestartCooldown
          /\ c.log = IF c.wasRunning
                     THEN << <<"StopContainer", c.name>>, <<"StartContainer", c.name>> >>
                     ELSE << <<"StartContainer", c.name>> >>
     /\ (c.healthy \/ c.restarted) => infra.failures[c.name] = 0
     /\ c.skipped => ~c.attempted /\ c.log = <<>>

\* The container was restarted a second time, by stop and start.
C28_Witness ==
  /\ infra.ret.restarted
  /\ infra.ret.wasRunning
  /\ infra.ret.name \in DOMAIN infra.ended

\* ------------------------------------------------------------------------
\* C29: if a registered unit with policy Always keeps failing its probe on
\* every watchdog cycle, it is eventually restarted again or marked failed;
\* a restart skipped because the cooldown was active is retried on a later
\* cycle, so the unit does not stay unhealthy forever without further
\* action.
\* The database is unhealthy after n restarts and not marked failed.
UnhealthyAfter(n) ==
  /\ UDatabase \in DOMAIN units
  /\ units[UDatabase].RestartPolicy = "Always"
  /\ ~units[UDatabase].Healthy
  /\ units[UDatabase].Status # "failed"
  /\ units[UDatabase].RestartCount = n

\* A probe succeeded, or the unit was restarted again or marked failed.
ActedAfter(n) ==
  \/ UDatabase \notin DOMAIN units
  \/ units[UDatabase].Healthy
  \/ units[UDatabase].Status = "failed"
  \/ units[UDatabase].RestartCount > n

C29_UnhealthyIsHandledAgain ==
  \A n \in 0 .. DefaultMaxRestarts : UnhealthyAfter(n) ~> ActedAfter(n)

\* ------------------------------------------------------------------------
\* C30: ExecuteBootSequence issues start for the units in BootSequence
\* order, never starting a unit before a dependency that is also in the
\* sequence; a start failure or a unit that never becomes healthy (wait
\* capped at 30 s) does not prevent any later unit from being started:
\* every registered unit gets exactly one start attempt and the call
\* terminates.
\* The containers ExecuteBootSequence called StartContainer for, in order
StartsOf(log) == [i \in 1 .. Len(log) |-> log[i][2]]

\* One start attempt per unit of the sequence, in its order, every
\* registered unit among them, within the time the waits and pauses allow.
BootAttemptsAll ==
  /\ \A i \in 1 .. Len(sret.log) : sret.log[i][1] = "StartContainer"
  /\ StartsOf(sret.log) = [i \in 1 .. Len(sret.seq) |-> sret.pre[sret.seq[i]].ContainerID]
  /\ ListsAllOnce(sret.seq, sret.pre)
  /\ sret.elapsed <= Len(sret.seq) * (BootHealthTimeout + BootPause)

NamesListed(seq) == { seq[i] : i \in 1 .. Len(seq) }

NoRepeats(seq) == \A i, j \in 1 .. Len(seq) : seq[i] = seq[j] => i = j

SelfDependent(us) == \E u \in DOMAIN us : u \in RegisteredDeps(us, u)

NamesUnregistered(us) ==
  \E u \in DOMAIN us : \E i \in 1 .. Len(us[u].DependsOn) :
    us[u].DependsOn[i] \notin DOMAIN us

C31_BootSequenceListsEachOnce ==
  sret.op = "BootSequence" =>
    /\ NamesListed(sret.seq) = DOMAIN sret.pre
    /\ NoRepeats(sret.seq)

\* C31 witness: database depends on app, app names itself and an
\* unregistered unit, cache depends on database; all three are returned.
C31_Witness ==
  /\ sret.op = "BootSequence"
  /\ DOMAIN sret.pre = {UDatabase, UApp, UCache}
  /\ SelfDependent(sret.pre) /\ NamesUnregistered(sret.pre)
  /\ UApp \in RegisteredDeps(sret.pre, UDatabase)
  /\ UDatabase \in RegisteredDeps(sret.pre, UCache)
  /\ Len(sret.seq) = 3

\* ---------------------------------------------------------------------
\* C32: BootSequence is deterministic: two calls on the same registered
\* set of units return the same sequence, also when several units share
\* one priority.
SameUnitsAsked == sret.op = "BootSequence" /\ sret'.op = "BootSequence"
                  /\ sret'.pre = sret.pre

C32_BootSequenceDeterministic ==
  [][SameUnitsAsked => sret'.seq = sret.seq]_vars

\* ---------------------------------------------------------------------
\* C33: blob writes are atomic: when PutBlob(d, r) fails partway through
\* the copy, HasBlob and GetBlob report afterwards, for every digest, what
\* they reported before the call.
PutBlobFailed == rret'.op = "PutBlob" /\ rret'.err

C33_FailedPutBlobLeavesNoTrace ==
  [][PutBlobFailed =>
       \A d \in Digests : /\ HasBlob(files', d) = HasBlob(files, d)
                          /\ GetBlob(files', d) = GetBlob(files, d)]_vars

\* ---------------------------------------------------------------------
\* C34: for every repository name of any number of slash-separated
\* segments and every reference, a request to /v2/<repo>/manifests/<ref>
\* is dispatched as a manifest operation on exactly (repo, ref) and a
\* request to /v2/<repo>/blobs/<digest> as a blob operation on exactly
\* (repo, digest).
HandlerOf(keyword) ==
  IF keyword = KwManifests THEN "handleManifest" ELSE "handleBlob"

DispatchedAs(target) ==
  /\ rret.kind = HandlerOf(target[2])
  /\ rret.repo = Join(target[1], <<"/">>)
  /\ rret.ref = target[3]

C34_PathDispatchedOnRepoAndRef ==
  rret.op = "handleV2" =>
    \A x \in V2Targets : rret.path = PathOf(x) => DispatchedAs(x)

\* ---------------------------------------------------------------------
\* C35: when CreatePod, UpdatePod, DeletePod, GetPod, GetPods and
\* GetPodStatus run on different tasks, no two of them are inside an
\* operation on the pod map at the same time unless both only read.
C35_PodMapAccessExclusive ==
  \A t, u \in TaskIds : ~Racing(t, u)

\* ---------------------------------------------------------------------
\* C36: CreatePod is all-or-nothing: when CreatePod(p) returns an error
\* at any step, for any container index, p is not tracked and nothing the
\* call made remains: no IPAM allocation or veth, no runtime container and
\* no registered unit.
CreatePodFailed == pret'.op = "CreatePod" /\ pret'.err # ""

C36_FailedCreateLeavesNothing ==
  [][CreatePodFailed =>
       /\ pods' = pods
       /\ mgr'.allocated = mgr.allocated
       /\ rosVeths' = rosVeths
       /\ rosContainers' = rosContainers
       /\ units' = units]_vars

\* ---------------------------------------------------------------------
\* C37: for every cached image the in-use count is never negative and
\* equals the number of containers of tracked pods created from that
\* image; it is 0 again once every pod using the image is deleted.
UsesOf(imageRef) ==
  Cardinality({ c \in UNION { {k} \X (1 .. Len(pods[k].Containers)) : k \in DOMAIN pods } :
                  pods[c[1]].Containers[c[2]].Image = imageRef })

C37_InUseCountsTrackedContainers ==
  \A imageRef \in DOMAIN images :
    /\ images[imageRef] >= 0
    /\ images[imageRef] = UsesOf(imageRef)

\* ---------------------------------------------------------------------
\* C38: two distinct tracked pods never share a veth name (IPAM key) or a
\* runtime container name, pods of one name in different namespaces
\* included.
VethNamesOf(pod) == { VethName(pod, i) : i \in 0 .. (Len(pod.Containers) - 1) }

ContainerNamesOf(pod) ==
  { sanitizeName(pod, pod.Containers[i].Name) : i \in 1 .. Len(pod.Containers) }

C38_TrackedPodsShareNoNames ==
  \A k1, k2 \in DOMAIN pods :
    k1 # k2 =>
      /\ VethNamesOf(pods[k1]) \cap VethNamesOf(pods[k2]) = {}
      /\ ContainerNamesOf(pods[k1]) \cap ContainerNamesOf(pods[k2]) = {}

\* ---------------------------------------------------------------------
\* C39: no two veths present on the runtime carry the same address, also
\* after a ReleaseInterface that failed to remove the veth or a failed
\* rollback of a bridge attach; and an AllocateInterface that returns an
\* error records no allocation.
AddressedVeths == { v \in DOMAIN rosVeths : rosVeths[v] # NoIP }

C39_VethAddressesDistinct ==
  /\ \A v, w \in AddressedVeths : rosVeths[v] = rosVeths[w] => v = w
  /\ pret.op = "AllocateInterface" /\ pret.err # "" => pret.ip = NoIP

\* ---------------------------------------------------------------------
\* C40: PutManifest(repo, ref, ...) changes only what GetManifest returns
\* for (repo, ref): for every other pair the bytes and the content type
\* GetManifest returns are the same before and after the call, references
\* that differ only by ":" versus "-" included.
PutManifestOn(k) ==
  rret'.op = "PutManifest" /\ rret'.repo = k[1] /\ rret'.ref = k[2]

C40_PutManifestChangesOnlyItsKey ==
  [][\A k, other \in FrameKeys :
       PutManifestOn(k) /\ other # k =>
         GetManifest(files', other[1], other[2])
           = GetManifest(files, other[1], other[2])]_vars

====
